---- MODULE Spec2Model ----
(***************************************************************************)
(* Order ingestion, order cache, reminder store, persistence mirror and    *)
(* the reminder sweep of src/main.py, as one state machine.                *)
(*                                                                         *)
(* Time is counted in days.  A pickup timestamp is the day number the      *)
(* pickup-date text parses to (09:00 of that day).  A day-key (yymmdd) is  *)
(* the pair <<yymm, dd>>, a month-key (yymm) the one-element prefix        *)
(* <<yymm>> of it.  Every coroutine is cut at its await points: one action *)
(* is the code a coroutine runs between two suspensions.                   *)
(***************************************************************************)
EXTENDS Integers, Sequences, FiniteSets, TLC

VARIABLES clock, cfg, nready, lock, hs, orders_cache, orders_db,
          reminders, svc_cache, reminders_db, sw, snap, fired, tc, out,
          pin, pres, calls

vars == <<clock, cfg, nready, lock, hs, orders_cache, orders_db,
          reminders, svc_cache, reminders_db, sw, snap, fired, tc, out,
          pin, pres, calls>>

\* the state of the commands: the !time coroutine, and the last report a
\* read command produced
\* a call of a pure function of the parser: its name and argument (pin) and
\* what it returned (pres); and, per user, the command invocations of the
\* running minute (calls)
aux_vars == <<pin, pres, calls>>

cmd_vars == <<tc, out, aux_vars>>

(***************************************************************************)
(* Bounds of the model.                                                    *)
(***************************************************************************)
MaxTime == 1
MaxReady == 2

\* timedelta(days=2) of the advance reminder
TwoDays == 2

\* the process_order_message coroutines: three, so that one can hold
\* cache_lock while two wait for it
Handlers == {1, 2, 3}

\* message.author.id of the catalogue's messages, in the order the sweep
\* visits the per-user lists
UserOrder == <<1, 2>>
Users == {UserOrder[k] : k \in 1..Len(UserOrder)}

(***************************************************************************)
(* The inbound messages.  A permalink (jump_url) names one chat message, so *)
(* it fixes text and author; the same message may be delivered to          *)
(* on_message more than once.  Messages 1 and 2 carry byte-identical text  *)
(* under different permalinks.  Text "N" has no recognisable pickup date.  *)
(***************************************************************************)
Msgs ==
  << [jump_url |-> 1, text |-> "A", author |-> 1],
     [jump_url |-> 2, text |-> "A", author |-> 2],
     [jump_url |-> 3, text |-> "B", author |-> 1],
     [jump_url |-> 4, text |-> "N", author |-> 2] >>

MsgIds == 1..Len(Msgs)
Urls == {Msgs[k].jump_url : k \in MsgIds}

\* extract_fields followed by parse_pickup_date_smart, on the catalogue's
\* texts: (dt_pickup, yymmdd), or (None, None) as ok = FALSE
ParsePickup(text) ==
  CASE text = "A" -> [ok |-> TRUE, dt |-> 3, yymmdd |-> <<1, 3>>]
    [] text = "B" -> [ok |-> TRUE, dt |-> 1, yymmdd |-> <<1, 1>>]
    [] OTHER -> [ok |-> FALSE, dt |-> 0, yymmdd |-> << >>]

DayKeys == {ParsePickup(Msgs[k].text).yymmdd : k \in MsgIds} \ {<< >>}

RemKeys == Urls \X BOOLEAN
KeyOf(r) == <<r.jump_url, r.summary_only>>

EmptyStore == [u \in Users |-> << >>]

(***************************************************************************)
(* OrderService                                                            *)
(***************************************************************************)
\* the persistence collaborator: working, absent (the collections are None),
\* or raising on every call
DbModes == {"ok", "none", "raises"}

\* a dict with no key
EmptyDict == [k \in {} |-> << >>]

\* self.cache.get(k, [])
DictGet(cache, k) == IF k \in DOMAIN cache THEN cache[k] ELSE << >>

\* if k not in self.cache: self.cache[k] = []
EnsureKey(cache, k) ==
  IF k \in DOMAIN cache THEN cache ELSE cache @@ (k :> << >>)

\* the record add_order builds (phone, deal_method, remark, pickup_date and
\* the creation timestamp are copies of parsed text and are left out);
\* has_id tells whether the dict has an "_id" key
OrderObj(m, yymmdd) ==
  [yymmdd |-> yymmdd, jump_url |-> m.jump_url,
   author |-> m.author, full_message |-> m.text, has_id |-> FALSE]

\* the duplicate check of add_order: the permalink is already stored under
\* this day-key
IsDuplicate(cache, jump_url, yymmdd) ==
  \E k \in 1..Len(cache[yymmdd]) : cache[yymmdd][k].jump_url = jump_url

\* save_order_to_db: insert_one when the collection exists.  insert_one puts
\* an "_id" into the dict it is given, which is the dict the cache holds,
\* before it talks to the server; an exception it raises is swallowed
save_order_to_db(db, order) ==
  CASE cfg.db = "none" -> [db |-> db, order |-> order]
    [] cfg.db = "ok" -> [db |-> Append(db, [order EXCEPT !.has_id = TRUE]),
                         order |-> [order EXCEPT !.has_id = TRUE]]
    [] OTHER -> [db |-> db, order |-> [order EXCEPT !.has_id = TRUE]]

add_order_nocheck(cache, db, m, yymmdd) ==
  LET sv == save_order_to_db(db, OrderObj(m, yymmdd))
  IN [ok |-> TRUE,
      cache |-> [EnsureKey(cache, yymmdd) EXCEPT ![yymmdd] = Append(@, sv.order)],
      db |-> sv.db]

add_order_dup_persists(cache, db, m, yymmdd) ==
  LET c1 == EnsureKey(cache, yymmdd)
      sv == save_order_to_db(db, OrderObj(m, yymmdd))
  IN IF IsDuplicate(c1, m.jump_url, yymmdd)
     THEN [ok |-> FALSE, cache |-> c1, db |-> sv.db]
     ELSE [ok |-> TRUE,
           cache |-> [c1 EXCEPT ![yymmdd] = Append(@, sv.order)],
           db |-> sv.db]

\* add_order: the return value, and the cache and the collection after the
\* call
add_order(cache, db, m, yymmdd) ==
  LET c1 == EnsureKey(cache, yymmdd)
      sv == save_order_to_db(db, OrderObj(m, yymmdd))
  IN IF IsDuplicate(c1, m.jump_url, yymmdd)
     THEN [ok |-> FALSE, cache |-> c1, db |-> db]
     ELSE [ok |-> TRUE,
           cache |-> [c1 EXCEPT ![yymmdd] = Append(@, sv.order)],
           db |-> sv.db]

\* the loop of load_orders_from_db: o = doc.copy(); o.pop("_id")
RECURSIVE LoadOrders(_, _, _)
LoadOrders(cache, db, k) ==
  IF k > Len(db) THEN cache
  ELSE LoadOrders([EnsureKey(cache, db[k].yymmdd) EXCEPT
                     ![db[k].yymmdd] = Append(@, [db[k] EXCEPT !.has_id = FALSE])],
                  db, k + 1)

\* load_orders_from_db: every stored document is appended to the cache
load_orders_from_db(cache, db) ==
  IF cfg.db = "ok" THEN LoadOrders(cache, db, 1) ELSE cache

(***************************************************************************)
(* ReminderService                                                         *)
(***************************************************************************)
ReminderObj_sent(m, reminder_time, summary_only) ==
  [time |-> reminder_time, message |-> m.text, jump_url |-> m.jump_url,
   summary_only |-> summary_only, sent |-> TRUE]

\* the record add_reminder builds (author, pickup_date, deal_method, phone and
\* remark are copies of parsed text and are left out)
ReminderObj(m, reminder_time, summary_only) ==
  [time |-> reminder_time, message |-> m.text, jump_url |-> m.jump_url,
   summary_only |-> summary_only, sent |-> FALSE]

add_reminder_prepend(cache, user_id, obj) ==
  [cache EXCEPT ![user_id] = <<obj>> \o @]

\* add_reminder on the dict the service holds
add_reminder(cache, user_id, obj) ==
  [cache EXCEPT ![user_id] = Append(@, obj)]

Doc(user_id, r) ==
  [user_id |-> user_id, time |-> r.time, message |-> r.message,
   jump_url |-> r.jump_url, summary_only |-> r.summary_only, sent |-> r.sent]

UnDoc(d) ==
  [time |-> d.time, message |-> d.message, jump_url |-> d.jump_url,
   summary_only |-> d.summary_only, sent |-> d.sent]

\* save_reminder_to_db: insert_one of a copy with user_id
save_reminder_to_db(db, user_id, r) ==
  IF cfg.db = "ok" THEN Append(db, Doc(user_id, r)) ELSE db

\* the first document update_one's filter {user_id, time} matches, 0 if none
RECURSIVE FirstMatch(_, _, _, _)
FirstMatch(db, user_id, time, k) ==
  IF k > Len(db) THEN 0
  ELSE IF db[k].user_id = user_id /\ db[k].time = time THEN k
  ELSE FirstMatch(db, user_id, time, k + 1)

\* update_reminder_in_db: $set of every field of r on the first match
update_reminder_in_db(db, user_id, r) ==
  IF cfg.db # "ok" THEN db
  ELSE LET k == FirstMatch(db, user_id, r.time, 1)
       IN IF k = 0 THEN db ELSE [db EXCEPT ![k] = Doc(user_id, r)]

RECURSIVE LoadReminders(_, _, _)
LoadReminders(store, db, k) ==
  IF k > Len(db) THEN store
  ELSE LoadReminders([store EXCEPT ![db[k].user_id] = Append(@, UnDoc(db[k]))],
                     db, k + 1)

\* load_reminders_from_db: the new dict the global name `reminders` is bound to
load_reminders_from_db(db) ==
  IF cfg.db = "ok" THEN LoadReminders(EmptyStore, db, 1) ELSE EmptyStore

(***************************************************************************)
(* check_reminders                                                         *)
(***************************************************************************)
IsDue_ignoring_time(nowv, r) == ~r.sent

\* the test of the sweep: now >= r["time"] and not r.get("sent", False)
IsDue(nowv, r) == nowv >= r.time /\ ~r.sent

\* the position <<k, i>> (k-th user of the visit order, i-th reminder of the
\* list) of the next reminder the two loops stop at, from <<k, i>> on;
\* k = Len(UserOrder) + 1 when the loops run to their end
RECURSIVE NextDue(_, _, _, _)
NextDue(s, nowv, k, i) ==
  IF k > Len(UserOrder) THEN <<Len(UserOrder) + 1, 1>>
  ELSE IF i > Len(s[UserOrder[k]]) THEN NextDue(s, nowv, k + 1, 1)
  ELSE IF IsDue(nowv, s[UserOrder[k]][i]) THEN <<k, i>>
  ELSE NextDue(s, nowv, k, i + 1)

\* r["sent"] = True
MarkSent(s, user_id, i) == [s EXCEPT ![user_id][i].sent = TRUE]

\* which send the sweep makes for r.  With TODAY_REMINDER_CHANNEL_ID set, a
\* summary reminder goes through send_today_reminder, which catches its own
\* errors: the sweep then takes a subset of the steps it takes with the
\* identifier unset, which is the case modelled
SendPath(r) ==
  IF cfg.rch THEN "channel" ELSE "none"

\* where the loops go on after the reminder at <<k, i>> was handled; the
\* inner try/except keeps them running whatever the outcome was
ResumeAt_abort(s, nowv, k, i, outcome) ==
  IF outcome = "fail" THEN <<Len(UserOrder) + 1, 1>>
  ELSE NextDue(s, nowv, k, i + 1)

ResumeAt(s, nowv, k, i, outcome) == NextDue(s, nowv, k, i + 1)

(***************************************************************************)
(* State                                                                   *)
(***************************************************************************)
\* a process_order_message coroutine: where it is suspended, its message,
\* what add_order returned and the `now` it read
IdleHandler == [pc |-> "idle", msg |-> 0, ret |-> "none", now |-> 0]

\* a coroutine that has returned: its frame is gone
DoneHandler == [pc |-> "done", msg |-> 0, ret |-> "none", now |-> 0]

NotRecognized_silent == [pc |-> "done", msg |-> 0, ret |-> "none", now |-> 0]

\* a coroutine that awaits send_reply with the "pickup date not recognized"
\* text: it has touched nothing and has nothing left to do but return
NotRecognized == [pc |-> "r_nr", msg |-> 0, ret |-> "none", now |-> 0]

\* coroutines waiting in cache_lock.acquire()
WaitPcs == {"w_lock1", "w_lock2", "w_lock3"}

IdleSweep == [pc |-> "idle", now |-> 0, gen |-> 0, k |-> 0, i |-> 0]

\* the set_reminder_time coroutine: where it is suspended, the `now` it
\* read, its hours argument (in days) and the message it is a reply to
IdleTime == [pc |-> "idle", now |-> 0, off |-> 0, msg |-> 0, user |-> 0]

\* what a format_* method returns when it returns None
NoOutput ==
  [kind |-> "none", n |-> 0, lines |-> << >>, days |-> EmptyDict,
   items |-> EmptyDict, total |-> 0]

\* no command has replied yet
NoReport == [cmd |-> "none", arg |-> << >>, text |-> NoOutput, reply |-> "none"]

\* no parser function was called yet
NoCall == [fn |-> "none", arg |-> << >>]

Init ==
  /\ clock = 0
  /\ cfg \in [db : DbModes, rch : BOOLEAN]
  /\ nready = 0
  /\ lock = 0
  /\ hs = [h \in Handlers |-> IdleHandler]
  /\ orders_cache = EmptyDict
  /\ orders_db = << >>
  /\ reminders = EmptyStore
  /\ svc_cache = EmptyStore
  /\ reminders_db = << >>
  /\ sw = IdleSweep
  /\ snap = EmptyStore
  /\ fired = [key \in RemKeys |-> "no"]
  /\ tc = IdleTime
  /\ out = NoReport
  /\ pin = NoCall
  /\ pres = << >>
  /\ calls = [u \in Users |-> 0]

(***************************************************************************)
(* process_order_message                                                   *)
(*                                                                         *)
(* Awaits that follow one another with no access to shared state between   *)
(* them are one suspension: fetch_user, channel.send and the send_reply     *)
(* after them on the immediate path; a send_reply that is the last          *)
(* statement of the handler is not a suspension of the model, except the    *)
(* reply that the pickup date was not recognised.                           *)
(***************************************************************************)
\* asyncio.Lock.acquire returns without suspending when the lock is free and
\* nobody waits for it
CanEnter(h, lk) ==
  /\ lk = 0
  /\ \A g \in Handlers \ {h} : hs[g].pc \notin WaitPcs
  /\ tc.pc # "w_lock"

\* `async with cache_lock: reminder_service.add_reminder(...)`: the service
\* appends to the dict it was constructed with; the global name `reminders`
\* is that same dict until load_reminders_from_db rebinds it
AddRem(w, m, reminder_time, summary_only) ==
  LET obj == ReminderObj(m, reminder_time, summary_only)
      svc2 == add_reminder(w.svc, m.author, obj)
  IN [w EXCEPT !.svc = svc2,
               !.rem = IF nready = 0 THEN svc2 ELSE @,
               !.rdb = save_reminder_to_db(@, m.author, obj)]

\* "# Set today reminder": from `if dt_pickup > now` to the handler's end
SummaryStage(w, h) ==
  LET m == Msgs[w.r.msg]
      dt == ParsePickup(m.text).dt
  IN IF dt > w.r.now
     THEN IF CanEnter(h, w.lock)
          THEN [AddRem(w, m, dt, TRUE) EXCEPT !.r.pc = "done"]
          ELSE [w EXCEPT !.r.pc = "w_lock3"]
     ELSE [w EXCEPT !.r.pc = "done"]

ImmediateDue_any_pickup(dt, nowv) == cfg.rch

\* the test of the immediate notification
ImmediateDue(dt, nowv) == dt > nowv /\ cfg.rch

\* "# Set reminders": from `two_days_before = ...` to the next suspension
AdvStage(w, h) ==
  LET m == Msgs[w.r.msg]
      dt == ParsePickup(m.text).dt
      two_days_before == dt - TwoDays
  IN IF two_days_before > w.r.now
     THEN IF CanEnter(h, w.lock)
          THEN [AddRem(w, m, two_days_before, FALSE) EXCEPT !.r.pc = "r_adv"]
          ELSE [w EXCEPT !.r.pc = "w_lock2"]
     ELSE IF ImmediateDue(dt, w.r.now)
          THEN [w EXCEPT !.r.pc = "imm"]
          ELSE SummaryStage(w, h)

World(h) ==
  [r |-> hs[h], lock |-> lock, svc |-> svc_cache, rem |-> reminders,
   rdb |-> reminders_db]

SetWorld(h, w) ==
  /\ hs' = [hs EXCEPT ![h] = IF w.r.pc = "done" THEN DoneHandler ELSE w.r]
  /\ lock' = w.lock
  /\ svc_cache' = w.svc
  /\ reminders' = w.rem
  /\ reminders_db' = w.rdb

\* inside the first `async with cache_lock`: add_order, then either the
\* duplicate reply (awaited with the lock held) or `now` and the reminders
AddOrderSeg(h, mid) ==
  LET m == Msgs[mid]
      p == ParsePickup(m.text)
      res == add_order(orders_cache, orders_db, m, p.yymmdd)
  IN /\ orders_cache' = res.cache
     /\ orders_db' = res.db
     /\ IF res.ok
        THEN SetWorld(h, AdvStage(
               [World(h) EXCEPT !.r.msg = mid, !.r.ret = "added",
                                !.r.now = clock, !.lock = 0], h))
        ELSE SetWorld(h,
               [World(h) EXCEPT !.r.msg = mid, !.r.ret = "dup",
                                !.r.pc = "r_dup", !.lock = h])

\* on_message with an order message: parse, then the first lock
Recv(h, mid) ==
  /\ hs[h].pc = "idle"
  /\ \A g \in Handlers : g < h => hs[g].pc # "idle"
  /\ IF ~ParsePickup(Msgs[mid].text).ok
     THEN /\ hs' = [hs EXCEPT ![h] = NotRecognized]
          /\ UNCHANGED <<lock, orders_cache, orders_db, svc_cache, reminders,
                         reminders_db>>
     ELSE IF CanEnter(h, lock)
     THEN AddOrderSeg(h, mid)
     ELSE /\ hs' = [hs EXCEPT ![h].pc = "w_lock1", ![h].msg = mid]
          /\ UNCHANGED <<lock, orders_cache, orders_db, svc_cache, reminders,
                         reminders_db>>
  /\ UNCHANGED <<clock, cfg, nready, sw, snap, fired>>
  /\ UNCHANGED cmd_vars

\* send_reply("... pickup date not recognized ...") returned: the handler
\* returns
NotRecReplied(h) ==
  /\ hs[h].pc = "r_nr"
  /\ hs' = [hs EXCEPT ![h] = DoneHandler]
  /\ UNCHANGED <<clock, cfg, nready, lock, orders_cache, orders_db, svc_cache,
                 reminders, reminders_db, sw, snap, fired>>
  /\ UNCHANGED cmd_vars

\* cache_lock.acquire() returned in a coroutine that waited at the first
\* `async with`
Lock1(h) ==
  /\ hs[h].pc = "w_lock1"
  /\ lock = 0
  /\ AddOrderSeg(h, hs[h].msg)
  /\ UNCHANGED <<clock, cfg, nready, sw, snap, fired>>
  /\ UNCHANGED cmd_vars

\* send_reply("Order already exists") returned: the lock is released
DupReplied(h) ==
  /\ hs[h].pc = "r_dup"
  /\ hs' = [hs EXCEPT ![h] = DoneHandler]
  /\ lock' = 0
  /\ UNCHANGED <<clock, cfg, nready, orders_cache, orders_db, svc_cache,
                 reminders, reminders_db, sw, snap, fired>>
  /\ UNCHANGED cmd_vars

Lock2(h) ==
  /\ hs[h].pc = "w_lock2"
  /\ lock = 0
  /\ LET m == Msgs[hs[h].msg]
         dt == ParsePickup(m.text).dt
     IN SetWorld(h, [AddRem(World(h), m, dt - TwoDays, FALSE)
                       EXCEPT !.r.pc = "r_adv"])
  /\ UNCHANGED <<clock, cfg, nready, orders_cache, orders_db, sw, snap, fired>>
  /\ UNCHANGED cmd_vars

\* send_reply("Reminder set for ...") returned
AdvReplied(h) ==
  /\ hs[h].pc = "r_adv"
  /\ SetWorld(h, SummaryStage(World(h), h))
  /\ UNCHANGED <<clock, cfg, nready, orders_cache, orders_db, sw, snap, fired>>
  /\ UNCHANGED cmd_vars

\* the immediate path ran to its end: channel or target user missing (no
\* send: "unresolved"), channel.send returned ("sent"), or channel.send raised
\* ("raised"); the first two go on to the summary reminder, the third ends
\* the handler in the outer except
Immediate(h, outcome) ==
  /\ hs[h].pc = "imm"
  /\ IF outcome = "raised"
     THEN /\ hs' = [hs EXCEPT ![h] = DoneHandler]
          /\ UNCHANGED <<lock, svc_cache, reminders, reminders_db>>
     ELSE SetWorld(h, SummaryStage(World(h), h))
  /\ UNCHANGED <<clock, cfg, nready, orders_cache, orders_db, sw, snap, fired>>
  /\ UNCHANGED cmd_vars

Lock3(h) ==
  /\ hs[h].pc = "w_lock3"
  /\ lock = 0
  /\ LET m == Msgs[hs[h].msg]
         dt == ParsePickup(m.text).dt
     IN SetWorld(h, [AddRem(World(h), m, dt, TRUE) EXCEPT !.r.pc = "done"])
  /\ UNCHANGED <<clock, cfg, nready, orders_cache, orders_db, sw, snap, fired>>
  /\ UNCHANGED cmd_vars

(***************************************************************************)
(* on_ready                                                                *)
(***************************************************************************)
\* startup or reconnect: both loads run, then check_reminders.start() (which
\* starts the loop the first time and raises, after the loads, later on)
OnReady ==
  /\ nready < MaxReady
  /\ nready' = nready + 1
  /\ reminders' = load_reminders_from_db(reminders_db)
  /\ orders_cache' = load_orders_from_db(orders_cache, orders_db)
  /\ UNCHANGED <<clock, cfg, lock, hs, orders_db, svc_cache, reminders_db,
                 sw, snap, fired>>
  /\ UNCHANGED cmd_vars

(***************************************************************************)
(* check_reminders: one iteration of the loop task                         *)
(*                                                                         *)
(* snap is the dict and the reminder objects the running iteration got     *)
(* from list(reminders.items()); they are the objects of the store as long *)
(* as the global name was not rebound since (sw.gen = nready).  The awaits *)
(* of one delivery (fetch_user, then the send) are one suspension.  An     *)
(* iteration that finds nothing due changes nothing.                       *)
(***************************************************************************)
AtEnd(pos) == pos[1] > Len(UserOrder)

SweepStart ==
  /\ sw.pc = "idle"
  /\ nready >= 1
  /\ LET pos == NextDue(reminders, clock, 1, 1)
     IN /\ ~AtEnd(pos)
        /\ sw' = [pc |-> "deliver", now |-> clock, gen |-> nready,
                  k |-> pos[1], i |-> pos[2]]
  /\ snap' = reminders
  /\ UNCHANGED <<clock, cfg, nready, lock, hs, orders_cache, orders_db,
                 reminders, svc_cache, reminders_db, fired>>
  /\ UNCHANGED cmd_vars

\* the outcomes of one delivery: "nouser" (fetch_user raised), "ok" (the send
\* returned, or there was no channel to send to), "raised" (channel.send
\* raised)
Outcomes(r) ==
  {"nouser", "ok"} \cup (IF SendPath(r) = "channel" THEN {"raised"} ELSE {})

\* the reminder at the sweep's position is marked sent, on the success path
\* the store is asked to update it, and the loops go on to the next
\* suspension or to their end
Delivered(outcome) ==
  /\ sw.pc = "deliver"
  /\ LET u == UserOrder[sw.k]
         snap2 == MarkSent(snap, u, sw.i)
         pos == ResumeAt(snap2, sw.now, sw.k, sw.i,
                         IF outcome = "ok" THEN "ok" ELSE "fail")
     IN /\ outcome \in Outcomes(snap[u][sw.i])
        /\ snap' = snap2
        /\ reminders' = IF sw.gen = nready THEN MarkSent(reminders, u, sw.i)
                        ELSE reminders
        /\ reminders_db' =
             IF outcome = "ok"
             THEN update_reminder_in_db(reminders_db, u, snap2[u][sw.i])
             ELSE reminders_db
        /\ fired' = [fired EXCEPT ![KeyOf(snap[u][sw.i])] =
                       IF outcome = "ok" THEN "ok" ELSE "fail"]
        /\ sw' = [sw EXCEPT !.pc = IF AtEnd(pos) THEN "done" ELSE "deliver",
                            !.k = pos[1], !.i = pos[2]]
  /\ UNCHANGED <<clock, cfg, nready, lock, hs, orders_cache, orders_db,
                 svc_cache>>
  /\ UNCHANGED cmd_vars

\* the iteration returned: its objects are dropped, the loop sleeps
SweepEnd ==
  /\ sw.pc = "done"
  /\ sw' = IdleSweep
  /\ snap' = EmptyStore
  /\ UNCHANGED <<clock, cfg, nready, lock, hs, orders_cache, orders_db,
                 reminders, svc_cache, reminders_db, fired>>
  /\ UNCHANGED cmd_vars

Tick ==
  /\ clock < MaxTime
  /\ clock' = clock + 1
  /\ UNCHANGED <<cfg, nready, lock, hs, orders_cache, orders_db, reminders,
                 svc_cache, reminders_db, sw, snap, fired>>
  /\ UNCHANGED cmd_vars

Next ==
  \/ Tick
  \/ OnReady
  \/ \E h \in Handlers, mid \in MsgIds : Recv(h, mid)
  \/ \E h \in Handlers : Lock1(h)
  \/ \E h \in Handlers : NotRecReplied(h)
  \/ \E h \in Handlers : DupReplied(h)
  \/ \E h \in Handlers : Lock2(h)
  \/ \E h \in Handlers : AdvReplied(h)
  \/ \E h \in Handlers, o \in {"unresolved", "sent", "raised"} : Immediate(h, o)
  \/ \E h \in Handlers : Lock3(h)
  \/ SweepStart
  \/ \E o \in {"nouser", "ok", "raised"} : Delivered(o)
  \/ SweepEnd

Spec == Init /\ [][Next]_vars

TypeOK ==
  /\ clock \in 0..MaxTime
  /\ nready \in 0..MaxReady
  /\ lock \in {0} \cup Handlers
  /\ nready = 0 => reminders = svc_cache
  /\ (sw.pc = "deliver" /\ sw.gen = nready) => snap = reminders
  /\ sw.pc = "deliver" => IsDue(sw.now, snap[UserOrder[sw.k]][sw.i])

(***************************************************************************)
(* Properties                                                              *)
(***************************************************************************)
MsgOf(h) == Msgs[hs[h].msg]
PickupOf(h) == ParsePickup(MsgOf(h).text).dt
DayKeyOf(h) == ParsePickup(MsgOf(h).text).yymmdd

\* how many records of the cache carry this permalink under this day-key
Count(cache, jump_url, yymmdd) ==
  Cardinality({k \in 1..Len(DictGet(cache, yymmdd)) :
                 cache[yymmdd][k].jump_url = jump_url})

\* a step in which coroutine h runs the code that follows the first
\* cache_lock.acquire(), or returns for want of a pickup date
Starts(h) ==
  hs[h].pc \in {"idle", "w_lock1"} /\ hs'[h].pc \notin {"idle", "w_lock1"}

\* a step in which add_order returns True for message mid: its record is
\* appended to the list of its day-key (on_ready is the one other step that
\* changes the cache)
AddedOrder(mid) ==
  LET m == Msgs[mid]
      p == ParsePickup(m.text)
  IN /\ p.ok
     /\ nready' = nready
     /\ \E has_id \in BOOLEAN :
          orders_cache' =
            [EnsureKey(orders_cache, p.yymmdd) EXCEPT ![p.yymmdd] =
               Append(@, [OrderObj(m, p.yymmdd) EXCEPT !.has_id = has_id])]

\* C1: an add_order call for a permalink not yet stored under its day-key
\* returns true and leaves exactly one record with it there; a call with a
\* permalink that is stored under the day-key (the second call) returns false
\* and leaves the cache as it was.  A coroutine that runs add_order does one
\* or the other, or it returned before the call for want of a pickup date.
C1_AddOrderTwice ==
  [][\A h \in Handlers :
       Starts(h) =>
         \/ \E mid \in MsgIds :
              LET m == Msgs[mid]
                  dk == ParsePickup(m.text).yymmdd
              IN /\ AddedOrder(mid)
                 /\ Count(orders_cache, m.jump_url, dk) = 0
                 /\ Count(orders_cache', m.jump_url, dk) = 1
                 /\ hs'[h].pc # "r_dup"
                 /\ hs'[h].pc # "done" => (hs'[h].msg = mid /\ hs'[h].ret = "added")
         \/ /\ hs'[h].pc = "r_dup" /\ hs'[h].ret = "dup"
            /\ Count(orders_cache, Msgs[hs'[h].msg].jump_url,
                     ParsePickup(Msgs[hs'[h].msg].text).yymmdd) > 0
            /\ orders_cache' = orders_cache
         \/ /\ hs[h].pc = "idle" /\ hs'[h].pc = "r_nr"
            /\ orders_cache' = orders_cache]_vars

\* the second call was made, before any reload of the cache: it returned
\* false, and the one record of the first call is stored
C1_Witness ==
  \E h \in Handlers :
    /\ hs[h].pc = "r_dup" /\ hs[h].ret = "dup"
    /\ nready = 0
    /\ Count(orders_cache, MsgOf(h).jump_url, DayKeyOf(h)) = 1

\* C2 (as claimed): of two add_order calls with byte-identical message text
\* under different permalinks, the second returns false and inserts nothing,
\* so no two stored orders carry the same text under different permalinks.
C2_SameTextRejected ==
  \A d \in DOMAIN orders_cache : \A i, j \in 1..Len(orders_cache[d]) :
    orders_cache[d][i].full_message = orders_cache[d][j].full_message
      => orders_cache[d][i].jump_url = orders_cache[d][j].jump_url

\* C3: of the process_order_message coroutines in flight for one permalink
\* and day-key, whatever the interleaving of their suspensions, at most one
\* got True from add_order.
C3_OneHandlerPasses ==
  \A h1, h2 \in Handlers :
    (/\ h1 # h2
     /\ hs[h1].msg # 0 /\ hs[h2].msg # 0
     /\ MsgOf(h1).jump_url = MsgOf(h2).jump_url
     /\ DayKeyOf(h1) = DayKeyOf(h2))
      => ~(hs[h1].ret = "added" /\ hs[h2].ret = "added")

\* the two coroutines overlap: the one that passed is still suspended when
\* the other is rejected
C3_Witness ==
  \E h1, h2 \in Handlers :
    /\ h1 # h2
    /\ hs[h1].msg = hs[h2].msg
    /\ hs[h1].ret = "added" /\ hs[h1].pc \in {"r_adv", "imm"}
    /\ hs[h2].ret = "dup" /\ hs[h2].pc = "r_dup"

\* C4 (as claimed): a reminder add_reminder adds after on_ready has run is
\* part of the store check_reminders sweeps (the dict the global name
\* `reminders` is bound to).
C4_AddedReminderIsSwept ==
  [][\A u \in Users :
       (nready >= 1 /\ Len(svc_cache'[u]) > Len(svc_cache[u])) =>
         \E i \in 1..Len(reminders'[u]) :
           reminders'[u][i] = svc_cache'[u][Len(svc_cache'[u])]]_vars

SentKeys(store) ==
  UNION {{KeyOf(store[u][i]) : i \in {j \in 1..Len(store[u]) : store[u][j].sent}}
         : u \in Users}

Delivering == sw.pc = "deliver"
Current == snap[UserOrder[sw.k]][sw.i]

\* C5 (as claimed): a reminder of the store that is sent stays sent, and a
\* sweep never starts a delivery of a reminder a sweep has marked sent.
C5_SentIsMonotonic ==
  [][/\ \A u \in Users : \A i \in 1..Len(reminders'[u]) :
          KeyOf(reminders'[u][i]) \in SentKeys(reminders) => reminders'[u][i].sent
     /\ Delivering' => fired'[KeyOf(Current')] = "no" \/ (Delivering /\ sw' = sw)]_vars

\* C6 (as claimed): a reminder whose delivery failed is marked sent by that
\* step of the sweep, and no sweep attempts its delivery again.
C6_FailedDeliveryNotRetried ==
  [][/\ (Delivering /\ sw' # sw) => snap'[UserOrder[sw.k]][sw.i].sent
     /\ (Delivering' /\ sw' # sw) => fired'[KeyOf(Current')] # "fail"]_vars

\* the positions of a store, and the visit order of the sweep on them
Positions(store) ==
  UNION {{<<k, i>> : i \in 1..Len(store[UserOrder[k]])} : k \in 1..Len(UserOrder)}
At(store, p) == store[UserOrder[p[1]]][p[2]]
Before(p, q) == p[1] < q[1] \/ (p[1] = q[1] /\ p[2] < q[2])

\* C7: when an iteration of check_reminders has run to its end, every
\* reminder it got from the store that was due at its `now` is marked sent,
\* whichever deliveries failed on the way; and while it runs, so is every due
\* reminder it has passed.
C7_SweepSurvivesFailure ==
  /\ sw.pc = "done" =>
       \A p \in Positions(snap) : sw.now >= At(snap, p).time => At(snap, p).sent
  /\ sw.pc = "deliver" =>
       \A p \in Positions(snap) :
         (Before(p, <<sw.k, sw.i>>) /\ sw.now >= At(snap, p).time)
           => At(snap, p).sent

\* an iteration ended in which a delivery failed and a reminder after it, due
\* at the same time, was delivered (the store was loaded once, so both were
\* handled by this iteration)
C7_Witness ==
  /\ sw.pc = "done" /\ nready = 1
  /\ \E p, q \in Positions(snap) :
       /\ Before(p, q)
       /\ At(snap, p).time = At(snap, q).time
       /\ fired[KeyOf(At(snap, p))] = "fail"
       /\ fired[KeyOf(At(snap, q))] = "ok"
       /\ At(snap, p).sent /\ At(snap, q).sent

\* the `now` of the iteration a step belongs to
SweepNow == IF sw.pc = "idle" THEN clock ELSE sw.now

\* C8: a step of the sweep changes, in the store and among the objects the
\* iteration holds, only reminders with now >= fire-time and sent = false,
\* and the reminder it goes on to deliver is one of those; a reminder whose
\* fire-time is later than the iteration's now is left as it was.
C8_SweepFiresOnlyDue ==
  [][sw' # sw =>
       /\ \A u \in Users :
            /\ Len(reminders'[u]) = Len(reminders[u])
            /\ \A i \in 1..Len(reminders[u]) :
                 (SweepNow < reminders[u][i].time \/ reminders[u][i].sent)
                   => reminders'[u][i] = reminders[u][i]
       /\ Delivering =>
            \A p \in Positions(snap) :
              (sw.now < At(snap, p).time \/ At(snap, p).sent)
                => At(snap', p) = At(snap, p)
       /\ Delivering' =>
            /\ sw'.now >= Current'.time
            /\ ~Current'.sent
       /\ \A key \in RemKeys :
            fired'[key] # fired[key] =>
              (Delivering /\ key = KeyOf(Current) /\ sw.now >= Current.time)]_vars

\* an iteration has fired a due reminder of the store and left one alone
\* whose fire-time is later than its now
C8_Witness ==
  /\ sw.pc = "done" /\ sw.gen = nready
  /\ \E p, q \in Positions(reminders) :
       /\ At(reminders, p).time <= sw.now /\ At(reminders, p).sent
       /\ fired[KeyOf(At(reminders, p))] # "no"
       /\ At(reminders, q).time > sw.now /\ ~At(reminders, q).sent

\* a step in which coroutine h leaves the `async with` of the advance
\* reminder
AddsAdvance(h) == hs[h].pc # "r_adv" /\ hs'[h].pc = "r_adv"

AdvanceCount(store, u) ==
  Cardinality({i \in 1..Len(store[u]) : ~store[u][i].summary_only})

\* C9: a coroutine whose order is accepted with pickup - 2 days > now goes on
\* to the advance reminder (at once, or after waiting for the lock), and
\* there it appends to the author's list exactly one reminder: fire-time
\* pickup - 2 days, summary_only false, sent false, the full message as
\* content; no other step adds an advance reminder.
C9_AdvanceReminderCreated ==
  [][/\ \A h \in Handlers :
          /\ \A mid \in MsgIds :
               (/\ Starts(h) /\ AddedOrder(mid)
                /\ ParsePickup(Msgs[mid].text).dt - TwoDays > clock)
                 => /\ hs'[h].pc \in {"r_adv", "w_lock2"}
                    /\ hs'[h].msg = mid /\ hs'[h].now = clock
          /\ AddsAdvance(h) =>
               LET m == Msgs[hs'[h].msg]
                   dt == ParsePickup(m.text).dt
               IN /\ dt - TwoDays > hs'[h].now
                  /\ svc_cache' =
                       [svc_cache EXCEPT ![m.author] =
                          Append(@, [time |-> dt - TwoDays, message |-> m.text,
                                     jump_url |-> m.jump_url,
                                     summary_only |-> FALSE, sent |-> FALSE])]
     /\ \A u \in Users :
          AdvanceCount(svc_cache', u) =
            AdvanceCount(svc_cache, u) +
              (IF \E h \in Handlers :
                    AddsAdvance(h) /\ Msgs[hs'[h].msg].author = u
               THEN 1 ELSE 0)]_vars

\* an accepted order with pickup - 2 days still ahead has its one pending
\* advance reminder in the author's list
C9_Witness ==
  \E h \in Handlers :
    /\ hs[h].ret = "added" /\ hs[h].pc = "r_adv"
    /\ PickupOf(h) - TwoDays > hs[h].now
    /\ \E i \in 1..Len(svc_cache[MsgOf(h).author]) :
         svc_cache[MsgOf(h).author][i] =
           [time |-> PickupOf(h) - TwoDays, message |-> MsgOf(h).text,
            jump_url |-> MsgOf(h).jump_url, summary_only |-> FALSE,
            sent |-> FALSE]

\* a step in which the order of message mid is accepted by coroutine h with
\* pickup - 2 days <= now
AcceptsLate(h, mid) ==
  /\ Starts(h) /\ AddedOrder(mid)
  /\ ParsePickup(Msgs[mid].text).dt - TwoDays <= clock

\* no step of the coroutine adds an advance reminder
NoAdvanceAdded(h) ==
  /\ hs'[h].pc \notin {"r_adv", "w_lock2"}
  /\ \A u \in Users : AdvanceCount(svc_cache', u) = AdvanceCount(svc_cache, u)

\* whoever waits for or has passed the advance reminder's lock had
\* pickup - 2 days > now
AdvanceOnlyEarly ==
  \A h \in Handlers :
    hs[h].pc \in {"r_adv", "w_lock2"} => PickupOf(h) - TwoDays > hs[h].now

\* C10 (as claimed): when an order is accepted with pickup - 2 days <= now,
\* whatever the pickup timestamp is relative to now, no advance reminder is
\* created and (the reminder channel being configured) the coroutine goes to
\* the immediate notification.
C10_ImmediateAlways ==
  [][\A h \in Handlers : \A mid \in MsgIds :
       AcceptsLate(h, mid) =>
         /\ NoAdvanceAdded(h)
         /\ cfg.rch => hs'[h].pc = "imm"]_vars

\* C10 (amended): when an order is accepted with pickup - 2 days <= now, no
\* advance reminder is created, and the coroutine goes to the immediate
\* notification exactly when the pickup timestamp is still in the future and
\* the reminder channel is configured; with the pickup timestamp already
\* past nothing is dispatched.  The notification is dispatched from there
\* unless channel or target user is missing.
C10_ImmediateOnlyBeforePickup ==
  /\ []AdvanceOnlyEarly
  /\ [][\A h \in Handlers : \A mid \in MsgIds :
          /\ AcceptsLate(h, mid) =>
               /\ NoAdvanceAdded(h)
               /\ hs'[h].pc = "imm" <=>
                    (ParsePickup(Msgs[mid].text).dt > clock /\ cfg.rch)
               /\ hs'[h].pc = "imm" => (hs'[h].msg = mid /\ hs'[h].now = clock)
          /\ (hs[h].pc # "imm" /\ hs'[h].pc = "imm") => Starts(h)]_vars

\* an order accepted with pickup - 2 days <= now and the pickup still ahead:
\* its coroutine is in the immediate notification, and no advance reminder
\* exists for it
C10_Witness ==
  \E h \in Handlers :
    /\ hs[h].pc = "imm" /\ hs[h].ret = "added" /\ cfg.rch
    /\ PickupOf(h) - TwoDays <= hs[h].now /\ PickupOf(h) > hs[h].now
    /\ \A u \in Users : \A i \in 1..Len(svc_cache[u]) :
         ~(svc_cache[u][i].jump_url = MsgOf(h).jump_url
           /\ ~svc_cache[u][i].summary_only)

(***************************************************************************)
(* Properties of the reminders an accepted order creates                   *)
(***************************************************************************)
\* a step that appends the summary reminder of message m to its author's
\* list: summary_only true, fire-time the pickup timestamp, sent false
AddsSummary(m) ==
  svc_cache' =
    [svc_cache EXCEPT ![m.author] =
       Append(@, [time |-> ParsePickup(m.text).dt, message |-> m.text,
                  jump_url |-> m.jump_url, summary_only |-> TRUE,
                  sent |-> FALSE])]

SummaryCount(store, u) ==
  Cardinality({i \in 1..Len(store[u]) : store[u][i].summary_only})

\* C11 (as claimed): the coroutine of an accepted order, when it returns,
\* has appended the summary reminder if and only if the pickup timestamp was
\* in the future at acceptance time; no other step adds a summary reminder.
C11_SummaryIffFuture ==
  [][/\ \A h \in Handlers :
          /\ (hs[h].ret = "added" /\ hs'[h].pc = "done") =>
               (PickupOf(h) > hs[h].now <=> AddsSummary(MsgOf(h)))
          /\ \A mid \in MsgIds :
               (Starts(h) /\ AddedOrder(mid) /\ hs'[h].pc = "done") =>
                 (ParsePickup(Msgs[mid].text).dt > clock <=> AddsSummary(Msgs[mid]))
     /\ (\E u \in Users : SummaryCount(svc_cache', u) # SummaryCount(svc_cache, u))
          => \E h \in Handlers : hs[h].pc # "done" /\ hs'[h].pc = "done"]_vars

(***************************************************************************)
(* set_reminder_time (!time <hours> [minutes])                             *)
(*                                                                         *)
(* The hours argument is any integer the command parser accepts, negative  *)
(* ones included; it is counted in days here, minutes is its default 0.    *)
(***************************************************************************)
Offsets == {-1, 0, 1}

\* the coroutine has returned
DoneTime == [pc |-> "done", now |-> 0, off |-> 0, msg |-> 0, user |-> 0]

\* the `async with cache_lock` of the command: add_reminder for the command's
\* author with fire-time now + timedelta(hours, minutes), built from the
\* message replied to; the send_reply after it ends the coroutine
TimeAdd ==
  LET m == Msgs[tc.msg]
      obj == ReminderObj(m, tc.now + tc.off, FALSE)
      svc2 == add_reminder(svc_cache, tc.user, obj)
  IN /\ svc_cache' = svc2
     /\ reminders' = IF nready = 0 THEN svc2 ELSE reminders
     /\ reminders_db' = save_reminder_to_db(reminders_db, tc.user, obj)
     /\ tc' = DoneTime

\* the command is invoked: without a message reference it replies and
\* returns; with one it reads `now` and awaits fetch_message
TimeCmd(ref, off, mid, user) ==
  /\ tc.pc = "idle"
  /\ tc' = IF ref
           THEN [pc |-> "fetch", now |-> clock, off |-> off, msg |-> mid,
                 user |-> user]
           ELSE DoneTime
  /\ UNCHANGED <<clock, cfg, nready, lock, hs, orders_cache, orders_db,
                 reminders, svc_cache, reminders_db, sw, snap, fired, out>>
  /\ UNCHANGED aux_vars

\* fetch_message returned or raised (the except replies and returns); after
\* it the lock is taken at once or waited for
TimeFetched(ok) ==
  /\ tc.pc = "fetch"
  /\ IF ~ok
     THEN /\ tc' = DoneTime
          /\ UNCHANGED <<svc_cache, reminders, reminders_db>>
     ELSE IF lock = 0 /\ \A g \in Handlers : hs[g].pc \notin WaitPcs
     THEN TimeAdd
     ELSE /\ tc' = [tc EXCEPT !.pc = "w_lock"]
          /\ UNCHANGED <<svc_cache, reminders, reminders_db>>
  /\ UNCHANGED <<clock, cfg, nready, lock, hs, orders_cache, orders_db,
                 sw, snap, fired, out>>
  /\ UNCHANGED aux_vars

\* cache_lock.acquire() returned in the command's coroutine
TimeLock ==
  /\ tc.pc = "w_lock"
  /\ lock = 0
  /\ TimeAdd
  /\ UNCHANGED <<clock, cfg, nready, lock, hs, orders_cache, orders_db,
                 sw, snap, fired, out>>
  /\ UNCHANGED aux_vars

\* order ingestion and the !time command, before on_ready
NextTime ==
  \/ Tick
  \/ \E h \in Handlers, mid \in MsgIds : Recv(h, mid)
  \/ \E h \in Handlers : Lock1(h)
  \/ \E h \in Handlers : NotRecReplied(h)
  \/ \E h \in Handlers : DupReplied(h)
  \/ \E h \in Handlers : Lock2(h)
  \/ \E h \in Handlers : AdvReplied(h)
  \/ \E h \in Handlers, o \in {"unresolved", "sent", "raised"} : Immediate(h, o)
  \/ \E h \in Handlers : Lock3(h)
  \/ \E ref \in BOOLEAN, off \in Offsets, mid \in MsgIds, user \in Users :
       TimeCmd(ref, off, mid, user)
  \/ \E ok \in BOOLEAN : TimeFetched(ok)
  \/ TimeLock

SpecTime == Init /\ [][NextTime]_vars

\* C12 (as claimed): whenever a reminder is appended to a user's list, by a
\* process_order_message coroutine or by !time with any arguments it
\* accepts, its fire-time is not before the time of its creation.
C12_NoPastFireTime ==
  [][\A u \in Users :
       Len(svc_cache'[u]) > Len(svc_cache[u]) =>
         /\ ~svc_cache'[u][Len(svc_cache'[u])].sent
         /\ svc_cache'[u][Len(svc_cache'[u])].time >= clock]_vars

(***************************************************************************)
(* The report paths: format_orders_detail, format_orders_content,          *)
(* format_month_detail, format_month_content and the commands !d, !c and   *)
(* !tdy, over caches built by direct calls of add_order.                   *)
(***************************************************************************)
\* the orders a sequence of direct add_order calls may store
MaxOrders == 2

\* the reminders a sequence of direct add_reminder calls may schedule
MaxReminders == 1

\* the quantity ceiling of consolidate_items
MaxQty == 1000

\* the day-keys add_order is called with: those of the catalogue's texts
\* and one day-key of another month
CallDays == DayKeys \cup {<<2, 1>>}

\* Text is a sequence of characters, each a one-character string; a
\* section marker such as 訂單內容 counts as one character.
Digit == <<"0", "1", "2", "3", "4", "5", "6", "7", "8", "9">>
IsDigit(c) == \E i \in 1..10 : Digit[i] = c
DigitVal(c) == (CHOOSE i \in 1..10 : Digit[i] = c) - 1

\* str(n) of a natural number
RECURSIVE Str(_)
Str(n) == IF n < 10 THEN <<Digit[n + 1]>> ELSE Str(n \div 10) \o <<Digit[(n % 10) + 1]>>

\* the value of a non-empty sequence of digits
RECURSIVE Val(_)
Val(ds) ==
  IF Len(ds) = 1 THEN DigitVal(ds[1])
  ELSE 10 * Val(SubSeq(ds, 1, Len(ds) - 1)) + DigitVal(ds[Len(ds)])

\* int(s) of a stripped string: the number, or ok = FALSE where int raises
ParseInt(s) ==
  LET signed == s # << >> /\ Head(s) \in {"-", "+"}
      ds == IF signed THEN Tail(s) ELSE s
  IN IF ds # << >> /\ \A i \in 1..Len(ds) : IsDigit(ds[i])
     THEN [ok |-> TRUE,
           val |-> IF signed /\ Head(s) = "-" THEN 0 - Val(ds) ELSE Val(ds)]
     ELSE [ok |-> FALSE, val |-> 0]

IsSpace(c) == c \in {" ", "\n"}

\* s.strip()
RECURSIVE Strip(_)
Strip(s) ==
  IF s = << >> THEN s
  ELSE IF IsSpace(Head(s)) THEN Strip(Tail(s))
  ELSE IF IsSpace(s[Len(s)]) THEN Strip(SubSeq(s, 1, Len(s) - 1))
  ELSE s

\* f"{product} × {qty}"
ItemString(product, qty) == product \o <<" ", "×", " ">> \o Str(qty)

\* parse_order_content_smart on the catalogue's texts: the "product × qty"
\* strings; text "N" has no content section
ItemsOf(text) ==
  CASE text = "A" -> << ItemString(<<"p">>, 2) >>
    [] text = "B" -> << ItemString(<<"p">>, 1),
                        ItemString(<<"b", "o", "x">>, 3) >>
    [] OTHER -> << >>

\* item.replace("×", "x")
ReplaceTimes(s) == [i \in 1..Len(s) |-> IF s[i] = "×" THEN "x" ELSE s[i]]

\* s.split("x")[0]
RECURSIVE BeforeX(_)
BeforeX(s) ==
  IF s = << >> \/ Head(s) = "x" THEN << >>
  ELSE <<Head(s)>> \o BeforeX(Tail(s))

\* s.split("x")[-1]
RECURSIVE AfterLastX(_)
AfterLastX(s) ==
  IF s = << >> \/ s[Len(s)] = "x" THEN << >>
  ELSE AfterLastX(SubSeq(s, 1, Len(s) - 1)) \o <<s[Len(s)]>>

\* the product_name consolidate_items reads from an item string
ProductName(item) ==
  IF \E i \in 1..Len(item) : item[i] \in {"×", "x"}
  THEN Strip(BeforeX(ReplaceTimes(item)))
  ELSE Strip(item)

\* the qty consolidate_items reads from an item string
ItemQty(item) ==
  IF \E i \in 1..Len(item) : item[i] \in {"×", "x"}
  THEN LET n == ParseInt(Strip(AfterLastX(ReplaceTimes(item))))
       IN IF n.ok THEN n.val ELSE 1
  ELSE 1

DictAdd_overwrite(d, k, q) ==
  IF k \in DOMAIN d THEN [d EXCEPT ![k] = q] ELSE d @@ (k :> q)

\* d[k] = d.get(k, 0) + q
DictAdd(d, k, q) ==
  IF k \in DOMAIN d THEN [d EXCEPT ![k] = @ + q] ELSE d @@ (k :> q)

\* the loop of consolidate_items from item k on
RECURSIVE Consolidate(_, _, _)
Consolidate(items, consolidated, k) ==
  IF k > Len(items) THEN consolidated
  ELSE LET product_name == ProductName(items[k])
           qty == ItemQty(items[k])
       IN Consolidate(items,
                      IF product_name # << >> /\ 1 <= qty /\ qty <= MaxQty
                      THEN DictAdd(consolidated, product_name, qty)
                      ELSE consolidated,
                      k + 1)

consolidate_items(items) == Consolidate(items, EmptyDict, 1)

\* for product, qty in consolidated.items(): acc[product] += qty
RECURSIVE MergeInto(_, _)
MergeInto(acc, consolidated) ==
  IF DOMAIN consolidated = {} THEN acc
  ELSE LET p == CHOOSE p \in DOMAIN consolidated : TRUE
       IN MergeInto(DictAdd(acc, p, consolidated[p]),
                    [q \in DOMAIN consolidated \ {p} |-> consolidated[q]])

\* the loop over the orders of one day, from order k on
RECURSIVE DayItems(_, _, _)
DayItems(orders, acc, k) ==
  IF k > Len(orders) THEN acc
  ELSE DayItems(orders,
                MergeInto(acc, consolidate_items(ItemsOf(orders[k].full_message))),
                k + 1)

\* sum(d.values())
RECURSIVE SumValues(_)
SumValues(d) ==
  IF DOMAIN d = {} THEN 0
  ELSE LET p == CHOOSE p \in DOMAIN d : TRUE
       IN d[p] + SumValues([q \in DOMAIN d \ {p} |-> d[q]])

StartsWith_contains(k, yymm) ==
  \E i \in 1..Len(k) :
    i + Len(yymm) - 1 <= Len(k) /\ SubSeq(k, i, i + Len(yymm) - 1) = yymm

\* k.startswith(yymm)
StartsWith(k, yymm) ==
  Len(yymm) <= Len(k) /\ SubSeq(k, 1, Len(yymm)) = yymm

\* the order of sorted(matching.keys()) on day-keys
KeyLess(a, b) == a[1] < b[1] \/ (a[1] = b[1] /\ a[2] < b[2])
MinKey(S) == CHOOSE a \in S : \A b \in S : a = b \/ KeyLess(a, b)

CacheGet_setdefault(cache, k) ==
  [val |-> DictGet(cache, k), cache |-> EnsureKey(cache, k)]

\* orders = self.cache.get(yymmdd, []): what is read, and the cache after
\* the read
CacheGet(cache, k) == [val |-> DictGet(cache, k), cache |-> cache]

\* matching = {k: v for k, v in self.cache.items() if k.startswith(yymm)}
CacheItems(cache, yymm) ==
  [val |-> [k \in {d \in DOMAIN cache : StartsWith(d, yymm)} |-> cache[k]],
   cache |-> cache]

\* format_orders_detail: the text (its order count and one entry per
\* order), or None, and the cache after the call
format_orders_detail(cache, yymmdd) ==
  LET g == CacheGet(cache, yymmdd)
      orders == g.val
  IN [cache |-> g.cache,
      out |-> IF orders = << >> THEN NoOutput
              ELSE [NoOutput EXCEPT
                      !.kind = "day_detail", !.n = Len(orders),
                      !.lines = [i \in 1..Len(orders) |->
                                   [author |-> orders[i].author,
                                    jump_url |-> orders[i].jump_url]]]]

\* format_orders_content: the consolidated item lines and the total
format_orders_content(cache, yymmdd) ==
  LET g == CacheGet(cache, yymmdd)
      orders == g.val
      all_items == DayItems(orders, EmptyDict, 1)
  IN [cache |-> g.cache,
      out |-> IF orders = << >> THEN NoOutput
              ELSE [NoOutput EXCEPT
                      !.kind = "day_content", !.n = Len(orders),
                      !.items = all_items, !.total = SumValues(all_items)]]

\* format_month_detail: one block per matching day-key with its order count
format_month_detail(cache, yymm) ==
  LET g == CacheItems(cache, yymm)
      matching == g.val
  IN [cache |-> g.cache,
      out |-> IF DOMAIN matching = {} THEN NoOutput
              ELSE [NoOutput EXCEPT
                      !.kind = "month_detail",
                      !.days = [d \in DOMAIN matching |->
                                  [n |-> Len(matching[d]),
                                   items |-> EmptyDict, total |-> 0]]]]

\* total_all_items of format_month_content: the day-keys in sorted order
RECURSIVE MonthItems(_, _, _)
MonthItems(matching, keys, total_all_items) ==
  IF keys = {} THEN total_all_items
  ELSE LET yymmdd == MinKey(keys)
       IN MonthItems(matching, keys \ {yymmdd},
                     DayItems(matching[yymmdd], total_all_items, 1))

\* format_month_content: per matching day-key the daily items and their
\* subtotal, then the month's items and total
format_month_content(cache, yymm) ==
  LET g == CacheItems(cache, yymm)
      matching == g.val
      total_all_items == MonthItems(matching, DOMAIN matching, EmptyDict)
  IN [cache |-> g.cache,
      out |-> IF DOMAIN matching = {} THEN NoOutput
              ELSE [NoOutput EXCEPT
                      !.kind = "month_content",
                      !.days = [d \in DOMAIN matching |->
                                  LET daily_items ==
                                        DayItems(matching[d], EmptyDict, 1)
                                  IN [n |-> Len(matching[d]),
                                      items |-> daily_items,
                                      total |-> SumValues(daily_items)]],
                      !.items = total_all_items,
                      !.total = SumValues(total_all_items)]]

\* the date_arg values of the commands, as digit groups: <<yymm>> is four
\* characters, <<yymm, dd>> six; a negative group stands for characters
\* that are not digits
DateArgs ==
  {<<1>>, <<2>>, <<3>>, <<1, 1>>, <<1, 2>>, <<1, 3>>, <<1, 1, 1>>, <<-1>>}

\* len(date_arg)
ArgLen(date_arg) == IF date_arg = << >> THEN 0 ELSE 4 + 2 * (Len(date_arg) - 1)

\* validator.validate_date_arg
validate_date_arg(date_arg) ==
  /\ ArgLen(date_arg) \in {4, 6}
  /\ \A i \in 1..Len(date_arg) : date_arg[i] >= 0

\* now.strftime("%y%m%d")
StrfDay(nowv) == <<1, nowv>>

\* the number of records in the cache
RECURSIVE TotalOrders(_)
TotalOrders(cache) ==
  IF DOMAIN cache = {} THEN 0
  ELSE LET k == CHOOSE k \in DOMAIN cache : TRUE
       IN Len(cache[k]) + TotalOrders([j \in DOMAIN cache \ {k} |-> cache[j]])

\* what a report command leaves alone apart from the cache
report_frame ==
  <<clock, cfg, nready, lock, hs, orders_db, reminders, svc_cache,
    reminders_db, sw, snap, fired, tc>>

\* a direct call order_service.add_order(...) of message mid under day-key d
CallAddOrder(mid, d) ==
  /\ TotalOrders(orders_cache) < MaxOrders
  /\ LET r == add_order(orders_cache, orders_db, Msgs[mid], d)
     IN /\ orders_cache' = r.cache
        /\ orders_db' = r.db
        /\ out' = [cmd |-> "add_order", arg |-> d,
                   text |-> [NoOutput EXCEPT
                               !.kind = IF r.ok THEN "True" ELSE "False",
                               !.n = mid],
                   reply |-> "none"]
  /\ UNCHANGED <<clock, cfg, nready, lock, hs, reminders, svc_cache,
                 reminders_db, sw, snap, fired, tc>>
  /\ UNCHANGED aux_vars

\* the number of reminders the service holds
TotalReminders(store) == Cardinality(Positions(store))

\* a direct call reminder_service.add_reminder(...) for message mid, as the
\* handler makes it for the advance or the summary reminder of its order
CallAddReminder(mid, summary_only) ==
  /\ ParsePickup(Msgs[mid].text).ok
  /\ TotalReminders(svc_cache) < MaxReminders
  /\ LET m == Msgs[mid]
         dt == ParsePickup(m.text).dt
         obj == ReminderObj(m, IF summary_only THEN dt ELSE dt - TwoDays,
                            summary_only)
         svc2 == add_reminder(svc_cache, m.author, obj)
     IN /\ svc_cache' = svc2
        /\ reminders' = IF nready = 0 THEN svc2 ELSE reminders
        /\ reminders_db' = save_reminder_to_db(reminders_db, m.author, obj)
  /\ UNCHANGED <<clock, cfg, nready, lock, hs, orders_cache, orders_db,
                 sw, snap, fired, tc, out>>
  /\ UNCHANGED aux_vars

\* the reply that follows the output of a format method: "no orders" when
\* it is None, else the reply made after send_to_cake_channel returned
\* ("results sent" or "#cake not found")
ReplyFor(output) ==
  IF output.kind = "none" THEN "no_orders" ELSE "after_cake"

\* the body shared by !d and !c: validate, pick the day or the month
\* method by len(date_arg), send the output to #cake, reply.  text is the
\* output that went to send_to_cake_channel (None: nothing did)
ReportCmd(cmd, date_arg, day, month) ==
  /\ IF ~validate_date_arg(date_arg)
     THEN /\ out' = [cmd |-> cmd, arg |-> date_arg, text |-> NoOutput,
                     reply |-> "invalid"]
          /\ orders_cache' = orders_cache
     ELSE LET r == IF ArgLen(date_arg) = 6 THEN day ELSE month
          IN /\ out' = [cmd |-> cmd, arg |-> date_arg, text |-> r.out,
                          reply |-> ReplyFor(r.out)]
             /\ orders_cache' = r.cache
  /\ UNCHANGED report_frame

\* !d
check_order_details(date_arg) ==
  /\ ReportCmd("d", date_arg, format_orders_detail(orders_cache, date_arg),
               format_month_detail(orders_cache, date_arg))
  /\ UNCHANGED aux_vars

\* !c
check_order_contents(date_arg) ==
  /\ ReportCmd("c", date_arg, format_orders_content(orders_cache, date_arg),
               format_month_content(orders_cache, date_arg))
  /\ UNCHANGED aux_vars

\* the body of !tdy
TodayCmd ==
  LET yymmdd == StrfDay(clock)
      r == format_orders_content(orders_cache, yymmdd)
  IN /\ out' = [cmd |-> "tdy", arg |-> yymmdd, text |-> r.out,
                  reply |-> ReplyFor(r.out)]
     /\ orders_cache' = r.cache
     /\ UNCHANGED report_frame

\* !tdy
show_today_orders == TodayCmd /\ UNCHANGED aux_vars

NextReports ==
  \/ Tick
  \/ \E mid \in MsgIds, d \in CallDays : CallAddOrder(mid, d)
  \/ \E mid \in MsgIds, summary_only \in BOOLEAN :
       CallAddReminder(mid, summary_only)
  \/ \E date_arg \in DateArgs : check_order_details(date_arg)
  \/ \E date_arg \in DateArgs : check_order_contents(date_arg)
  \/ show_today_orders

\* the reports do not read REMINDER_CHANNEL_ID
InitReports == Init /\ ~cfg.rch

SpecReports == InitReports /\ [][NextReports]_vars

\* C13: after any sequence of add_order calls no two records of the cache,
\* under the same or under different day-keys, carry the same permalink
C13_PermalinkUniqueInCache ==
  \A d1 \in DOMAIN orders_cache, d2 \in DOMAIN orders_cache :
    \A i \in 1..Len(orders_cache[d1]), j \in 1..Len(orders_cache[d2]) :
      orders_cache[d1][i].jump_url = orders_cache[d2][j].jump_url
        => (d1 = d2 /\ i = j)

\* C14: an add_order call that returns False leaves the cache as it was,
\* key set and every list, and inserts nothing into the collection
C14_RejectedCallChangesNothing ==
  [][(out'.cmd = "add_order" /\ out'.text.kind = "False")
       => (/\ DOMAIN orders_cache' = DOMAIN orders_cache
           /\ \A d \in DOMAIN orders_cache : orders_cache'[d] = orders_cache[d]
           /\ orders_db' = orders_db)]_vars

\* a rejected call was made while the collection works and holds the
\* record of the first call
C14_Witness ==
  /\ out.cmd = "add_order" /\ out.text.kind = "False"
  /\ cfg.db = "ok"
  /\ Len(orders_db) = 1
  /\ IsDuplicate(orders_cache, Msgs[out.text.n].jump_url, out.arg)

\* the cache a call of add_order leaves when the collection is None: the
\* record is stored as it was built
AddOrderInMemory(cache, m, yymmdd) ==
  LET c1 == EnsureKey(cache, yymmdd)
  IN IF IsDuplicate(c1, m.jump_url, yymmdd) THEN c1
     ELSE [c1 EXCEPT ![yymmdd] = Append(@, OrderObj(m, yymmdd))]

\* C15: whatever the collection does (works, is None, raises), a call of
\* add_order leaves the in-memory cache it leaves when the collection is
\* None, and returns the same value
C15_CacheSameInEveryDbMode ==
  [][\A mid \in MsgIds, d \in CallDays :
       CallAddOrder(mid, d) =>
         /\ orders_cache' = AddOrderInMemory(orders_cache, Msgs[mid], d)
         /\ (out'.text.kind = "False")
              = IsDuplicate(EnsureKey(orders_cache, d), Msgs[mid].jump_url, d)]_vars

\* a step that writes the order cache, schedules a reminder or marks a
\* reminder of the running sweep sent (the loads of on_ready aside)
Mutates ==
  /\ nready' = nready
  /\ \/ orders_cache' # orders_cache
     \/ svc_cache' # svc_cache
     \/ SentKeys(snap') # SentKeys(snap)

\* coroutine h ran code inside an `async with cache_lock` block in this
\* step: the lock was free and h took it
RanLocked(h) == hs'[h] # hs[h] /\ lock = 0

\* C16: each write of the order cache or of the reminder state (insert or
\* reject of an order, scheduling, the sweep's sent = True) is made by a
\* task that holds cache_lock while it writes
C16_MutationsUnderLock ==
  [][Mutates => \E h \in Handlers : RanLocked(h)]_vars

\* C17: every state lies between two steps, so every coroutine is at a
\* suspension point in it; no coroutine holds cache_lock there
C17_LockFreeAtSuspension ==
  \A h \in Handlers : hs[h].pc \notin {"idle", "done"} => lock # h

\* in the list, every advance reminder of a permalink stands before the
\* summary reminder of that permalink
AdvanceFirst(list) ==
  \A i \in 1..Len(list), j \in 1..Len(list) :
    (/\ list[i].summary_only
     /\ ~list[j].summary_only
     /\ list[j].jump_url = list[i].jump_url) => j < i

\* C18: for an order with both reminders the advance reminder was appended
\* to the author's list before the summary reminder, whatever other
\* handlers and the sweep did in between
C18_AdvanceBeforeSummary ==
  \A u \in Users : AdvanceFirst(svc_cache[u]) /\ AdvanceFirst(reminders[u])

\* an author's list holds both reminders of one order, and a reminder of
\* another order was appended between them
C18_Witness ==
  \E u \in Users : \E j \in 1..Len(svc_cache[u]), i \in 1..Len(svc_cache[u]) :
    /\ j + 1 < i
    /\ ~svc_cache[u][j].summary_only
    /\ svc_cache[u][i].summary_only
    /\ svc_cache[u][i].jump_url = svc_cache[u][j].jump_url
    /\ svc_cache[u][j + 1].jump_url # svc_cache[u][j].jump_url

\* a step of one of the commands !d, !c, !tdy: the reply names the
\* command and its argument
ReportStep ==
  \/ out'.cmd = "d" /\ check_order_details(out'.arg)
  \/ out'.cmd = "c" /\ check_order_contents(out'.arg)
  \/ out'.cmd = "tdy" /\ show_today_orders

\* the four format methods leave the cache they read as it is, for every
\* day-key and month-key argument
FormatLeavesCache ==
  \A a \in DateArgs :
    /\ format_orders_detail(orders_cache, a).cache = orders_cache
    /\ format_orders_content(orders_cache, a).cache = orders_cache
    /\ Len(a) = 1 =>
         /\ format_month_detail(orders_cache, a).cache = orders_cache
         /\ format_month_content(orders_cache, a).cache = orders_cache

\* C19: the report methods and the commands !d, !c and !tdy change neither
\* the order cache (its keys, its records) nor any reminder, also when they
\* are asked for a day or a month without orders
C19_ReportsChangeNothing ==
  /\ []FormatLeavesCache
  /\ [][ReportStep =>
          /\ DOMAIN orders_cache' = DOMAIN orders_cache
          /\ \A d \in DOMAIN orders_cache : orders_cache'[d] = orders_cache[d]
          /\ reminders' = reminders
          /\ svc_cache' = svc_cache]_vars

\* a command was asked for a day or month that has no orders, while the
\* cache holds orders and a reminder is scheduled
C19_Witness ==
  /\ out.cmd \in {"d", "c", "tdy"}
  /\ out.reply = "no_orders"
  /\ \A d \in DOMAIN orders_cache : ~StartsWith(d, out.arg)
  /\ orders_cache # EmptyDict
  /\ TotalReminders(reminders) > 0

\* the sum of the totals format_orders_content renders for the day-keys in
\* keys
RECURSIVE SumDayTotals(_, _)
SumDayTotals(cache, keys) ==
  IF keys = {} THEN 0
  ELSE LET d == CHOOSE d \in keys : TRUE
       IN format_orders_content(cache, d).out.total
            + SumDayTotals(cache, keys \ {d})

\* the month-keys of the day-keys add_order is called with, and one month
\* without orders
MonthArgs == {<<d[1]>> : d \in CallDays} \cup {<<3>>}

\* C20: the month total of format_month_content is the sum of the totals
\* format_orders_content renders for the cached day-keys of that month, and
\* each subtotal of the month report is the total of that day's report
C20_MonthTotalIsSumOfDays ==
  \A yymm \in MonthArgs :
    LET month == format_month_content(orders_cache, yymm).out
        days == {d \in DOMAIN orders_cache : StartsWith(d, yymm)}
    IN /\ (month.kind = "none") = (days = {})
       /\ month.kind # "none" =>
            /\ DOMAIN month.days = days
            /\ month.total = SumDayTotals(orders_cache, days)
            /\ \A d \in days :
                 /\ format_orders_content(orders_cache, d).out.kind = "day_content"
                 /\ month.days[d].total
                      = format_orders_content(orders_cache, d).out.total

\* !c of a month rendered a report over two day-keys whose orders hold
\* the same product
C20_Witness ==
  /\ out.cmd = "c"
  /\ out.text.kind = "month_content"
  /\ Cardinality(DOMAIN out.text.days) = 2
  /\ \A d \in DOMAIN out.text.days : <<"p">> \in DOMAIN out.text.days[d].items
  /\ out.text.total = 4
  /\ out.text = format_month_content(orders_cache, out.arg).out

\* no record of the cache was stored for day-key d
NoOrderOn(d) ==
  \A k \in DOMAIN orders_cache : \A i \in 1..Len(orders_cache[k]) :
    orders_cache[k][i].yymmdd # d

\* no day-key of the cache lies in month yymm
NoDayKeyIn(yymm) == \A k \in DOMAIN orders_cache : k[1] # yymm[1]

\* the day methods return None exactly for a day-key without orders, the
\* month methods exactly for a month-key no stored day-key starts with
NoneIffNoOrders ==
  \A a \in DateArgs :
    /\ Len(a) = 2 =>
         /\ (format_orders_content(orders_cache, a).out.kind = "none") = NoOrderOn(a)
         /\ (format_orders_detail(orders_cache, a).out.kind = "none") = NoOrderOn(a)
    /\ (Len(a) = 1 /\ validate_date_arg(a)) =>
         /\ (format_month_content(orders_cache, a).out.kind = "none") = NoDayKeyIn(a)
         /\ (format_month_detail(orders_cache, a).out.kind = "none") = NoDayKeyIn(a)

\* C21: a day report is None exactly when no order is stored under the
\* day-key, a month report exactly when no stored day-key starts with the
\* month-key, and !d and !c then reply "no orders found" and send nothing
\* to the report channel
C21_NoOrdersIsAReply ==
  /\ []NoneIffNoOrders
  /\ [][((out'.cmd = "d" /\ check_order_details(out'.arg))
           \/ (out'.cmd = "c" /\ check_order_contents(out'.arg)))
        => /\ validate_date_arg(out'.arg) =>
                (out'.reply = "no_orders")
                  = (IF Len(out'.arg) = 2 THEN NoOrderOn(out'.arg)
                     ELSE NoDayKeyIn(out'.arg))
           /\ out'.reply = "no_orders" => out'.text = NoOutput]_vars

\* !c of a month without orders replied "no orders found" while the cache
\* holds an order of another month on the day that has the month's digits
C21_Witness ==
  /\ out.cmd = "c"
  /\ out.reply = "no_orders"
  /\ Len(out.arg) = 1
  /\ \E k \in DOMAIN orders_cache : k[2] = out.arg[1] /\ orders_cache[k] # << >>

(***************************************************************************)
(* parse_pickup_date_smart                                                 *)
(***************************************************************************)
\* the length ceiling of validate_pickup_date
MaxPickupLen == 100

\* the hour of the pickup timestamp
PickupHour == 9

\* elements of the date patterns: \d{lo,hi} and a literal character; the
\* characters 年, 月 and 日 are written "nian", "yue" and "ri"
D(lo, hi) == [lo |-> lo, hi |-> hi, ch |-> "d"]
L(c) == [lo |-> 1, hi |-> 1, ch |-> c]

\* the number of digits of s from position i on
RECURSIVE DigitRun(_, _)
DigitRun(s, i) ==
  IF i > Len(s) \/ ~IsDigit(s[i]) THEN 0 ELSE 1 + DigitRun(s, i + 1)

\* the match of pat from element k on at position i of s, as re finds it
\* (greedy, backtracking): << >> when there is none, else <<groups>>
RECURSIVE MatchAt(_, _, _, _), TryDigits(_, _, _, _, _)
MatchAt(s, i, pat, k) ==
  IF k > Len(pat) THEN << << >> >>
  ELSE IF pat[k].ch # "d"
  THEN IF i <= Len(s) /\ s[i] = pat[k].ch
       THEN MatchAt(s, i + 1, pat, k + 1)
       ELSE << >>
  ELSE TryDigits(s, i, pat, k,
                 IF pat[k].hi < DigitRun(s, i) THEN pat[k].hi
                 ELSE DigitRun(s, i))

TryDigits(s, i, pat, k, n) ==
  IF n < pat[k].lo THEN << >>
  ELSE LET r == MatchAt(s, i + n, pat, k + 1)
       IN IF r # << >> THEN << <<SubSeq(s, i, i + n - 1)>> \o r[1] >>
          ELSE TryDigits(s, i, pat, k, n - 1)

\* re.search(pat, s): the groups of the leftmost match, as numbers, or << >>
Search(s, pat) ==
  LET starts == {i \in 1..Len(s) : MatchAt(s, i, pat, 1) # << >>}
  IN IF starts = {} THEN << >>
     ELSE LET i == CHOOSE i \in starts : \A j \in starts : i <= j
              g == MatchAt(s, i, pat, 1)[1]
          IN [n \in 1..Len(g) |-> Val(g[n])]

\* datetime(y, mth, d, 9, 0) does not raise
ValidDate(y, mth, d) ==
  LET leap == (y % 4 = 0 /\ y % 100 # 0) \/ y % 400 = 0
      days == IF mth = 2 THEN (IF leap THEN 29 ELSE 28)
              ELSE IF mth \in {4, 6, 9, 11} THEN 30 ELSE 31
  IN /\ y >= 1 /\ y <= 9999
     /\ mth >= 1 /\ mth <= 12
     /\ d >= 1 /\ d <= days

Pad2_unpadded(n) == Str(n)

\* a number below 100 as two digits
Pad2(n) == IF n < 10 THEN <<"0">> \o Str(n) ELSE Str(n)

\* dt.strftime("%y%m%d")
Strftime(y, mth, d) == Pad2(y % 100) \o Pad2(mth) \o Pad2(d)

\* (None, None)
NoDate == [ok |-> FALSE, y |-> 0, mth |-> 0, d |-> 0, hour |-> 0, yymmdd |-> << >>]

YearlessDayMonth_ge(first, second) ==
  [d |-> IF first >= 12 THEN first ELSE second,
   mth |-> IF first >= 12 THEN second ELSE first]

\* d = first if first > 12 else second; mth = second if first > 12 else first
YearlessDayMonth(first, second) ==
  [d |-> IF first > 12 THEN first ELSE second,
   mth |-> IF first > 12 THEN second ELSE first]

\* one `if m:` block with year y, month mth and day d read from the match:
\* "return" with the date, "raise" when datetime() raises, "next" when the
\* range test fails
TryDate(y, mth, d) ==
  IF mth >= 1 /\ mth <= 12 /\ d >= 1 /\ d <= 31
  THEN IF ValidDate(y, mth, d)
       THEN [go |-> "return",
             val |-> [ok |-> TRUE, y |-> y, mth |-> mth, d |-> d,
                      hour |-> PickupHour, yymmdd |-> Strftime(y, mth, d)]]
       ELSE [go |-> "raise", val |-> NoDate]
  ELSE [go |-> "next", val |-> NoDate]

\* parse_pickup_date_smart(pickup_str) in a year year_now; None and "" are
\* the empty text
parse_pickup_date_smart(pickup_str, year_now) ==
  LET m1 == Search(pickup_str, <<D(4, 4), L("nian"), D(1, 2), L("yue"),
                              D(1, 2), L("ri")>>)
      t1 == IF m1 = << >> THEN [go |-> "next", val |-> NoDate]
            ELSE TryDate(m1[1], m1[2], m1[3])
      m2 == Search(pickup_str, <<D(4, 4), L("-"), D(1, 2), L("-"), D(1, 2)>>)
      t2 == IF m2 = << >> THEN [go |-> "next", val |-> NoDate]
            ELSE TryDate(m2[1], m2[2], m2[3])
      m3 == Search(pickup_str, <<D(1, 2), L("/"), D(1, 2), L("/"), D(4, 4)>>)
      t3 == IF m3 = << >> THEN [go |-> "next", val |-> NoDate]
            ELSE TryDate(m3[3], m3[2], m3[1])
      m4 == Search(pickup_str, <<D(1, 2), L("/"), D(1, 2)>>)
      t4 == IF m4 = << >> THEN [go |-> "next", val |-> NoDate]
            ELSE LET p == YearlessDayMonth(m4[1], m4[2])
                 IN TryDate(year_now, p.mth, p.d)
  IN IF pickup_str = << >> \/ Len(pickup_str) > MaxPickupLen THEN NoDate
     ELSE IF t1.go # "next" THEN t1.val
     ELSE IF t2.go # "next" THEN t2.val
     ELSE IF t3.go # "next" THEN t3.val
     ELSE t4.val

(***************************************************************************)
(* The pure functions of ParserService, called once on an argument drawn   *)
(* from a bounded set: pin is the call, pres what it returned.             *)
(***************************************************************************)
\* the items of a list handed to consolidate_items
MaxItems == 3

\* product names and quantities of the item strings
ProductNames == {<<"A">>, <<"B">>, <<"B", "o">>, <<"B", "o", "x">>}
Qtys == {1, 2}

\* the lists of (product, qty) pairs up to MaxItems
ItemLists ==
  UNION {[1..n -> [product : ProductNames, qty : Qtys]] : n \in 0..MaxItems}

\* the "product × qty" strings of a list of pairs
ItemStrings(pairs) ==
  [i \in 1..Len(pairs) |-> ItemString(pairs[i].product, pairs[i].qty)]

\* everything but the call and its result
call_frame ==
  <<clock, cfg, nready, lock, hs, orders_cache, orders_db, reminders,
    svc_cache, reminders_db, sw, snap, fired, tc, out, calls>>

\* ParserService.consolidate_items(items_list)
CallConsolidate(pairs) ==
  /\ pin = NoCall
  /\ pin' = [fn |-> "consolidate_items", arg |-> pairs]
  /\ pres' = consolidate_items(ItemStrings(pairs))
  /\ UNCHANGED call_frame

\* the sum of the quantities of product p in a list of pairs
RECURSIVE SumQty(_, _)
SumQty(pairs, p) ==
  IF pairs = << >> THEN 0
  ELSE (IF Head(pairs).product = p THEN Head(pairs).qty ELSE 0)
         + SumQty(Tail(pairs), p)

\* the permutations of 1..n
Perms(n) ==
  {f \in [1..n -> 1..n] : \A i \in 1..n, j \in 1..n : f[i] = f[j] => i = j}

\* consolidate_items gives the same map for every order of the list
OrderIndependent ==
  pin.fn = "consolidate_items" =>
    \A f \in Perms(Len(pin.arg)) :
      consolidate_items(ItemStrings([i \in 1..Len(pin.arg) |-> pin.arg[f[i]]]))
        = pres

\* C22: consolidate_items gives the same product -> total map for every
\* order of the list, and the total of each product of the list is the sum
\* of its quantities
C22_ConsolidateSumsPerProduct ==
  /\ OrderIndependent
  /\ pin.fn = "consolidate_items" =>
       /\ DOMAIN pres = {pin.arg[i].product : i \in 1..Len(pin.arg)}
       /\ \A p \in DOMAIN pres : pres[p] = SumQty(pin.arg, p)

\* the numbers written in the pickup dates: the ends of the ranges of
\* months and days and of the first-number test, and some between
DateNums == {0, 1, 2, 3, 5, 9, 10, 12, 13, 19, 28, 29, 30, 31, 32}

\* the four-digit years written in the dates, and the years of the call
Years == {1999, 2000, 2024, 2025, 2100}
YearsNow == {2024, 2025}

\* a year as four digits
Pad4(y) ==
  IF y < 10 THEN <<"0", "0", "0">> \o Str(y)
  ELSE IF y < 100 THEN <<"0", "0">> \o Str(y)
  ELSE IF y < 1000 THEN <<"0">> \o Str(y)
  ELSE Str(y)

\* the pickup texts: form "A/B" is a/b, "nian" is a年b月c日, "dash" is a-b-c,
\* "dmy" is a/b/c, with one- or two-digit numbers written as they are or
\* padded to two digits; "words" has no digit, "empty" is None or ""
DateInputs ==
  [form : {"A/B"}, a : DateNums, b : DateNums, c : {0}, pad : BOOLEAN]
    \cup [form : {"nian", "dash"}, a : Years, b : DateNums, c : DateNums,
          pad : BOOLEAN]
    \cup [form : {"dmy"}, a : DateNums, b : DateNums, c : Years, pad : BOOLEAN]
    \cup [form : {"words", "empty"}, a : {0}, b : {0}, c : {0}, pad : {FALSE}]

Num(n, pad) == IF pad THEN Pad2(n) ELSE Str(n)

PickupText(in) ==
  CASE in.form = "A/B" -> Num(in.a, in.pad) \o <<"/">> \o Num(in.b, in.pad)
    [] in.form = "nian" ->
         Pad4(in.a) \o <<"nian">> \o Num(in.b, in.pad) \o <<"yue">>
           \o Num(in.c, in.pad) \o <<"ri">>
    [] in.form = "dash" ->
         Pad4(in.a) \o <<"-">> \o Num(in.b, in.pad) \o <<"-">> \o Num(in.c, in.pad)
    [] in.form = "dmy" ->
         Num(in.a, in.pad) \o <<"/">> \o Num(in.b, in.pad) \o <<"/">> \o Pad4(in.c)
    [] in.form = "words" -> <<"t", "b", "c">>
    [] OTHER -> << >>

\* parser_service.parse_pickup_date_smart(pickup) in the year year_now
CallParseDate(in, year_now) ==
  /\ pin = NoCall
  /\ pin' = [fn |-> "parse_pickup_date_smart",
             arg |-> [in |-> in, year_now |-> year_now]]
  /\ pres' = parse_pickup_date_smart(PickupText(in), year_now)
  /\ UNCHANGED call_frame

(***************************************************************************)
(* parse_order_content_smart, on the characters of the text.  The section  *)
(* marker and the stop keywords are one element each: "dingdanneirong" for *)
(* the order-content marker, "zongshu", "quhuoriqi" and "jiaoshoufangshi"   *)
(* for the total, pickup-date and delivery keywords; "prime", "ldq" and     *)
(* "rdq" are the double prime and the curly quotes.                         *)
(***************************************************************************)
MaxReasonableQty == 1000
MaxProductLen == 100

ContentMarker == "dingdanneirong"

is_reasonable_quantity(qty) == 0 < qty /\ qty <= MaxReasonableQty

\* the number of whitespace characters of s from position i on
RECURSIVE WsRun(_, _)
WsRun(s, i) ==
  IF i > Len(s) \/ ~IsSpace(s[i]) THEN 0 ELSE 1 + WsRun(s, i + 1)

\* the position after the number \d+\.?\d* that starts at the digit s[i]
NumEnd(s, i) ==
  LET j == i + DigitRun(s, i)
  IN IF j <= Len(s) /\ s[j] = "." THEN j + 1 + DigitRun(s, j + 1) ELSE j

\* the position of the inch mark that ends a match of the size pattern at
\* position i, or 0
SizeMatchEnd(s, i) ==
  IF ~IsDigit(s[i]) THEN 0
  ELSE LET e == NumEnd(s, i) + WsRun(s, NumEnd(s, i))
       IN IF e <= Len(s) /\ s[e] \in {"\"", "prime", "ldq", "rdq"} THEN e ELSE 0

\* normalize_sizes: re.sub of number, spaces, inch mark by number, space, "
RECURSIVE NormalizeFrom(_, _)
NormalizeFrom(s, i) ==
  IF i > Len(s) THEN << >>
  ELSE IF SizeMatchEnd(s, i) = 0 THEN <<s[i]>> \o NormalizeFrom(s, i + 1)
  ELSE SubSeq(s, i, NumEnd(s, i) - 1) \o <<" ", "\"">>
         \o NormalizeFrom(s, SizeMatchEnd(s, i) + 1)

normalize_sizes(text) == NormalizeFrom(text, 1)

\* s.split(tok)[0]
RECURSIVE BeforeTok(_, _)
BeforeTok(s, tok) ==
  IF s = << >> \/ Head(s) = tok THEN << >>
  ELSE <<Head(s)>> \o BeforeTok(Tail(s), tok)

\* s.split(tok)[1], for s that holds tok
AfterTok(s, tok) ==
  LET rest == SubSeq(s, Len(BeforeTok(s, tok)) + 2, Len(s))
  IN BeforeTok(rest, tok)

\* the content part cut at the stop keywords from the k-th on
RECURSIVE CutAtStops(_, _)
CutAtStops(s, k) ==
  LET keywords == <<"zongshu", "quhuoriqi", "jiaoshoufangshi">>
  IN IF k > Len(keywords) THEN s
     ELSE CutAtStops(BeforeTok(s, keywords[k]), k + 1)

\* the match of ([^×\n]+?)\s*(?:×|x)\s*(\d+) that starts at position i with
\* a first group of n characters or more (the group is lazy: the shortest)
RECURSIVE ItemMatchAt(_, _, _)
ItemMatchAt(s, i, n) ==
  IF i + n - 1 > Len(s) \/ s[i + n - 1] \in {"×", "\n"}
  THEN [ok |-> FALSE, product |-> << >>, qty |-> << >>, end |-> 0]
  ELSE LET p == i + n + WsRun(s, i + n)
           q == p + 1 + WsRun(s, p + 1)
           dr == DigitRun(s, q)
       IN IF p <= Len(s) /\ s[p] \in {"×", "x"} /\ dr > 0
          THEN [ok |-> TRUE, product |-> SubSeq(s, i, i + n - 1),
                qty |-> SubSeq(s, q, q + dr - 1), end |-> q + dr]
          ELSE ItemMatchAt(s, i, n + 1)

\* re.findall(pattern, s) from position pos on
RECURSIVE FindAll(_, _)
FindAll(s, pos) ==
  IF pos > Len(s) THEN << >>
  ELSE IF ItemMatchAt(s, pos, 1).ok
  THEN <<ItemMatchAt(s, pos, 1)>> \o FindAll(s, ItemMatchAt(s, pos, 1).end)
  ELSE FindAll(s, pos + 1)

\* strategy 1: the items of the matches
RECURSIVE MatchItems(_)
MatchItems(matches) ==
  IF matches = << >> THEN << >>
  ELSE LET product == Strip(Head(matches).product)
           qty_int == Val(Head(matches).qty)
       IN (IF product # << >> /\ Len(product) < MaxProductLen
              /\ is_reasonable_quantity(qty_int)
           THEN << ItemString(product, qty_int) >>
           ELSE << >>)
            \o MatchItems(Tail(matches))

\* s.split("\n")
RECURSIVE SplitLines(_)
SplitLines(s) ==
  LET first == BeforeTok(s, "\n")
  IN IF Len(first) = Len(s) THEN <<s>>
     ELSE <<first>> \o SplitLines(SubSeq(s, Len(first) + 2, Len(s)))

\* strategy 2: an item of quantity 1 for each line that is not empty
RECURSIVE LineItems(_)
LineItems(lines) ==
  IF lines = << >> THEN << >>
  ELSE LET line == Strip(Head(lines))
       IN (IF line # << >> /\ Len(line) < MaxProductLen
              /\ line \notin {<<"zongshu">>, <<"quhuoriqi">>}
           THEN << ItemString(line, 1) >>
           ELSE << >>)
            \o LineItems(Tail(lines))

parse_order_content_smart(text) ==
  IF \A i \in 1..Len(text) : text[i] # ContentMarker THEN << >>
  ELSE LET content_part ==
             normalize_sizes(
               Strip(CutAtStops(AfterTok(text, ContentMarker), 1)))
           matches == FindAll(content_part, 1)
       IN IF matches # << >> THEN MatchItems(matches)
          ELSE LineItems(SplitLines(content_part))

\* the most item lines of a text
MaxLines == 2

\* product texts as written and as the parser shows them (normalize_sizes
\* puts a space before the inch mark); the last is an empty line
ContentProducts ==
  { [text |-> <<"C">>, shown |-> <<"C">>],
    [text |-> <<"T", "a">>, shown |-> <<"T", "a">>],
    [text |-> <<"B", "o", "x">>, shown |-> <<"B", "o", "x">>],
    [text |-> <<"6", "\"", "T">>, shown |-> <<"6", " ", "\"", "T">>] }
BlankLine == [text |-> << >>, shown |-> << >>]

ContentQtys == {0, 1, 2, 1000, 1001}

\* an item line: the product alone (sep "none"), "product × qty" (sep
\* "times") or "productxqty" (sep "x")
LineSpecs ==
  [product : ContentProducts \cup {BlankLine}, sep : {"none"}, qty : {1}]
    \cup [product : ContentProducts, sep : {"times", "x"}, qty : ContentQtys]

LineText(l) ==
  CASE l.sep = "none" -> l.product.text
    [] l.sep = "times" -> l.product.text \o <<" ", "×", " ">> \o Str(l.qty)
    [] OTHER -> l.product.text \o <<"x">> \o Str(l.qty)

\* a message: a heading, the section marker or none, the item lines, then
\* nothing or one of the stop keywords followed by text that reads as an item
ContentInputs ==
  [marker : {TRUE},
   lines : UNION {[1..n -> LineSpecs] : n \in 0..MaxLines},
   stop : {"none", "zongshu", "quhuoriqi", "jiaoshoufangshi"}]
    \cup [marker : {FALSE},
          lines : UNION {[1..n -> LineSpecs] : n \in 0..MaxLines},
          stop : {"none"}]

RECURSIVE JoinLines(_)
JoinLines(lines) ==
  IF lines = << >> THEN << >>
  ELSE <<"\n">> \o LineText(Head(lines)) \o JoinLines(Tail(lines))

ContentText(in) ==
  <<"H">>
    \o (IF in.marker THEN <<"\n", ContentMarker>> ELSE << >>)
    \o JoinLines(in.lines)
    \o (IF in.stop = "none" THEN << >>
        ELSE <<"\n", in.stop, ":", " ", "3", "\n", "Z", " ", "x", " ", "9">>)

\* parser_service.parse_order_content_smart(text)
CallParseContent(in) ==
  /\ pin = NoCall
  /\ pin' = [fn |-> "parse_order_content_smart", arg |-> in]
  /\ pres' = parse_order_content_smart(ContentText(in))
  /\ UNCHANGED call_frame

\* one call of a parser function
NextParse ==
  \/ \E pairs \in ItemLists : CallConsolidate(pairs)
  \/ \E in \in DateInputs, year_now \in YearsNow : CallParseDate(in, year_now)
  \/ \E in \in ContentInputs : CallParseContent(in)

\* the parser functions read no configuration
InitParse == Init /\ cfg.db = "none" /\ ~cfg.rch

SpecParse == InitParse /\ [][NextParse]_vars

\* a call of parse_pickup_date_smart on a text of the form was made
Parsed(form) ==
  pin.fn = "parse_pickup_date_smart" /\ pin.arg.in.form = form

\* C23: for a year-less A/B the first number is the day and the second the
\* month when the first is above 12, else the first is the month and the
\* second the day; the year is the current one; a month outside 1..12 or a
\* day outside 1..31 gives (None, None)
C23_YearlessDayMonth ==
  Parsed("A/B") =>
    LET A == pin.arg.in.a
        B == pin.arg.in.b
        d == IF A > 12 THEN A ELSE B
        mth == IF A > 12 THEN B ELSE A
    IN /\ pres.ok => (pres.y = pin.arg.year_now /\ pres.mth = mth /\ pres.d = d)
       /\ (mth < 1 \/ mth > 12 \/ d < 1 \/ d > 31) => ~pres.ok
       /\ ValidDate(pin.arg.year_now, mth, d) => pres.ok

\* 13/5 was parsed, and gave 13 May of the current year
C23_Witness ==
  /\ Parsed("A/B")
  /\ pin.arg.in.a = 13 /\ pin.arg.in.b = 5
  /\ pres.ok /\ pres.d = 13 /\ pres.mth = 5 /\ pres.y = pin.arg.year_now

\* C24: a valid calendar date written as YYYY年M月D日, YYYY-M-D or D/M/YYYY
\* gives a day-key of six digits, the two-digit year, month and day, and a
\* timestamp at 09:00 of that date
C24_FullDateGivesDayKey ==
  \A form \in {"nian", "dash", "dmy"} :
    Parsed(form) =>
      LET y == IF form = "dmy" THEN pin.arg.in.c ELSE pin.arg.in.a
          mth == pin.arg.in.b
          d == IF form = "dmy" THEN pin.arg.in.a ELSE pin.arg.in.c
      IN ValidDate(y, mth, d) =>
           /\ pres.ok
           /\ pres.y = y /\ pres.mth = mth /\ pres.d = d /\ pres.hour = 9
           /\ Len(pres.yymmdd) = 6
           /\ \A i \in 1..6 : IsDigit(pres.yymmdd[i])
           /\ Val(SubSeq(pres.yymmdd, 1, 2)) = y % 100
           /\ Val(SubSeq(pres.yymmdd, 3, 4)) = mth
           /\ Val(SubSeq(pres.yymmdd, 5, 6)) = d

\* 5/1/2100 was parsed, and gave day-key 000105
C24_Witness ==
  /\ Parsed("dmy")
  /\ pin.arg.in.a = 5 /\ pin.arg.in.b = 1 /\ pin.arg.in.c = 2100
  /\ ~pin.arg.in.pad
  /\ pres.ok
  /\ pres.yymmdd = <<"0", "0", "0", "1", "0", "5">>

\* every stored order and every scheduled reminder is of a message whose
\* pickup date was recognised
StoredHaveDate ==
  /\ \A d \in DOMAIN orders_cache : \A i \in 1..Len(orders_cache[d]) :
       \E mid \in MsgIds :
         /\ Msgs[mid].jump_url = orders_cache[d][i].jump_url
         /\ ParsePickup(Msgs[mid].text).ok
  /\ \A u \in Users : \A i \in 1..Len(svc_cache[u]) :
       \E mid \in MsgIds :
         /\ Msgs[mid].jump_url = svc_cache[u][i].jump_url
         /\ ParsePickup(Msgs[mid].text).ok

\* C25: a process_order_message coroutine whose message has no recognised
\* pickup date touches neither the order cache nor the reminders nor the
\* collections nor the lock, and awaits the "pickup date not recognized"
\* reply, after which it returns; every other coroutine that starts carries
\* a message with a recognised date.  Nothing is stored for a message
\* without one.
C25_NoDateNoOrder ==
  /\ []StoredHaveDate
  /\ [][\A h \in Handlers :
          (hs[h].pc = "idle" /\ hs'[h].pc # "idle") =>
            \/ /\ hs'[h].pc = "r_nr"
               /\ UNCHANGED <<orders_cache, orders_db, svc_cache, reminders,
                              reminders_db, lock>>
            \/ /\ hs'[h].pc \notin {"done", "r_nr"}
               /\ ParsePickup(Msgs[hs'[h].msg].text).ok
            \/ /\ hs'[h].pc = "done"
               /\ \E mid \in MsgIds : AddedOrder(mid)]_vars
  /\ [][\A h \in Handlers :
          (hs[h].pc = "r_nr" /\ hs'[h] # hs[h]) =>
            /\ hs'[h] = DoneHandler
            /\ UNCHANGED <<orders_cache, orders_db, svc_cache, reminders,
                           reminders_db, lock>>]_vars

\* a coroutine awaits the "not recognized" reply while an order of another
\* message is stored: the order cache holds that one order only
C25_Witness ==
  \E h \in Handlers :
    /\ hs[h].pc = "r_nr"
    /\ TotalOrders(orders_cache) = 1
    /\ \A u \in Users : svc_cache[u] = << >>

\* a call of parse_order_content_smart on a text with the section marker
ParsedContent == pin.fn = "parse_order_content_smart" /\ pin.arg.marker

\* the item lines of the call that carry a quantity, in order
RECURSIVE MarkedLines(_)
MarkedLines(lines) ==
  IF lines = << >> THEN << >>
  ELSE (IF Head(lines).sep = "none" THEN << >> ELSE <<Head(lines)>>)
         \o MarkedLines(Tail(lines))

\* C26 (as claimed): when every item line is a product followed by × or x
\* and digits, each line yields one item, with its own quantity when that
\* is within 1..1000 and with quantity 1 when it is outside
C26_OutOfRangeCoerced ==
  (ParsedContent /\ MarkedLines(pin.arg.lines) = pin.arg.lines) =>
    /\ Len(pres) = Len(pin.arg.lines)
    /\ \A k \in 1..Len(pin.arg.lines) :
         k <= Len(pres) =>
           pres[k] = ItemString(pin.arg.lines[k].product.shown,
                                IF pin.arg.lines[k].qty \in 1..1000
                                THEN pin.arg.lines[k].qty ELSE 1)

\* C27 (as claimed): without the section marker the result is empty; with
\* it, every non-empty item line that carries no × or x and digits yields an
\* item of quantity 1
C27_UnmarkedLinesQtyOne ==
  pin.fn = "parse_order_content_smart" =>
    IF ~pin.arg.marker THEN pres = << >>
    ELSE \A k \in 1..Len(pin.arg.lines) :
           (pin.arg.lines[k].sep = "none" /\ pin.arg.lines[k].product # BlankLine)
             => \E j \in 1..Len(pres) :
                  pres[j] = ItemString(pin.arg.lines[k].product.shown, 1)

(***************************************************************************)
(* The commands as their users invoke them.  calls[u] counts the commands  *)
(* of user u that the bot ran in the running minute; no code of the bot    *)
(* reads or writes such a count, the variable only observes the runs.      *)
(***************************************************************************)
\* the ceiling of commands per user and minute that the limiter would be
\* configured with (small, so that it is reached; the default would be 10)
RateCeiling == 2

\* the bot ran one more command of user u
Counted(u) ==
  /\ calls[u] <= RateCeiling
  /\ calls' = [calls EXCEPT ![u] = @ + 1]
  /\ UNCHANGED <<pin, pres>>

\* user u sends !d date_arg: the command body runs
InvokeD(u, date_arg) ==
  /\ ReportCmd("d", date_arg, format_orders_detail(orders_cache, date_arg),
               format_month_detail(orders_cache, date_arg))
  /\ Counted(u)

\* user u sends !c date_arg
InvokeC(u, date_arg) ==
  /\ ReportCmd("c", date_arg, format_orders_content(orders_cache, date_arg),
               format_month_content(orders_cache, date_arg))
  /\ Counted(u)

\* user u sends !tdy
InvokeTdy(u) == TodayCmd /\ Counted(u)

\* a minute passes without a command: the commands counted so far are
\* older than 60 seconds
MinutePasses ==
  /\ \E u \in Users : calls[u] > 0
  /\ calls' = [u \in Users |-> 0]
  /\ UNCHANGED <<pin, pres, out, orders_cache>>
  /\ UNCHANGED report_frame

NextRate ==
  \/ \E mid \in MsgIds, d \in CallDays : CallAddOrder(mid, d)
  \/ \E u \in Users, date_arg \in DateArgs : InvokeD(u, date_arg)
  \/ \E u \in Users, date_arg \in DateArgs : InvokeC(u, date_arg)
  \/ \E u \in Users : InvokeTdy(u)
  \/ MinutePasses

SpecRate == InitReports /\ [][NextRate]_vars

\* C28 (as claimed): a command of a user who already has the ceiling of
\* commands in the trailing minute is rejected, so the bot never runs more
\* than the ceiling of commands of one user within a minute
C28_RateLimited ==
  \A u \in Users : calls[u] <= RateCeiling

(***************************************************************************)
(* The in-memory stores over a long time: orders and reminders are added,  *)
(* the bot reconnects, check_reminders runs, and a pause passes that is     *)
(* longer than any retention time.  check_reminders is the one background   *)
(* task of the program; there is no other action to model.                  *)
(***************************************************************************)
\* the days of the long pause: more than 90 days after the latest day-key
LongPauseDays == 94

\* many days pass at once
LongPause ==
  /\ clock <= MaxTime
  /\ clock' = clock + LongPauseDays
  /\ UNCHANGED <<cfg, nready, lock, hs, orders_cache, orders_db, reminders,
                 svc_cache, reminders_db, sw, snap, fired>>
  /\ UNCHANGED cmd_vars

NextEvict ==
  \/ LongPause
  \/ \E mid \in MsgIds, d \in DayKeys : CallAddOrder(mid, d)
  \/ \E mid \in MsgIds, summary_only \in BOOLEAN :
       CallAddReminder(mid, summary_only)
  \/ OnReady
  \/ SweepStart
  \/ \E outcome \in {"nouser", "ok", "raised"} : Delivered(outcome)
  \/ SweepEnd

\* time passes, the bot connects, and the loop of check_reminders runs
\* every minute once started
SpecEvict ==
  /\ InitReports
  /\ [][NextEvict]_vars
  /\ WF_vars(LongPause)
  /\ WF_vars(OnReady)
  /\ WF_vars(SweepStart)
  /\ WF_vars(\E outcome \in {"nouser", "ok", "raised"} : Delivered(outcome))
  /\ WF_vars(SweepEnd)

\* the reminder store holds a reminder of user u with this permalink and
\* kind
HoldsReminder(u, key) ==
  \E i \in 1..Len(reminders[u]) : KeyOf(reminders[u][i]) = key

\* ... and it is more than 30 days past its fire-time
HoldsExpiredReminder(u, key) ==
  \E i \in 1..Len(reminders[u]) :
    KeyOf(reminders[u][i]) = key /\ clock - reminders[u][i].time > 30

\* the order cache holds an order under day-key d = <<yymm, dd>> of the
\* first month, whose day dd is more than 90 days back
HoldsExpiredOrders(d) ==
  DictGet(orders_cache, d) # << >> /\ clock - d[2] > 90

\* C29 (as claimed): a reminder more than 30 days past its fire-time and the
\* orders of a day-key more than 90 days old are eventually removed from
\* the in-memory stores
C29_ExpiredEventuallyRemoved ==
  /\ \A u \in Users, key \in RemKeys :
       HoldsExpiredReminder(u, key) ~> ~HoldsReminder(u, key)
  /\ \A d \in DayKeys :
       HoldsExpiredOrders(d) ~> (DictGet(orders_cache, d) = << >>)

\* C30 (as claimed): the coroutine of an accepted order on the immediate
\* path (pickup in the future, less than two days away), whatever the
\* outcome of the immediate notification, goes on to the summary reminder:
\* the step that ends the notification appends it, or leaves the coroutine
\* waiting for the lock in front of it
C30_ImmediateFailureOnlyLogged ==
  [][\A h \in Handlers :
       (hs[h].pc = "imm" /\ hs'[h].pc # "imm") =>
         \/ AddsSummary(MsgOf(h))
         \/ hs'[h].pc = "w_lock3"]_vars

\* how many reminders of this permalink and kind the store holds
KindCount(store, jump_url, summary_only) ==
  Cardinality({p \in Positions(store) :
                 At(store, p).jump_url = jump_url
                   /\ At(store, p).summary_only = summary_only})

\* C31: the reminders the handlers created number at most one advance and
\* one summary reminder for each permalink, whatever the number of messages
\* received; a step in which add_order rejects a duplicate, and the return
\* that follows its reply, create no reminder
C31_AtMostTwoPerOrder ==
  /\ [](\A mid \in MsgIds, summary_only \in BOOLEAN :
          KindCount(svc_cache, Msgs[mid].jump_url, summary_only) <= 1)
  /\ [][\A h \in Handlers :
          (hs'[h] # hs[h] /\ (hs'[h].pc = "r_dup" \/ hs[h].pc = "r_dup"))
            => svc_cache' = svc_cache /\ reminders_db' = reminders_db]_vars

\* both reminders of an order exist while another coroutine with the same
\* message was rejected as a duplicate
C31_Witness ==
  \E h \in Handlers :
    /\ hs[h].pc = "r_dup"
    /\ KindCount(svc_cache, MsgOf(h).jump_url, TRUE) = 1
    /\ KindCount(svc_cache, MsgOf(h).jump_url, FALSE) = 1

\* C32 (as claimed): when the sweep has delivered a reminder and the
\* collection works, the step that marks it sent leaves the stored document
\* of that reminder (same user, permalink and kind) with sent = True and
\* every other stored document as it was
C32_UpdateHitsOwnRecord ==
  [][(sw.pc = "deliver" /\ sw' # sw /\ cfg.db = "ok"
        /\ fired'[KeyOf(Current)] = "ok")
       => /\ Len(reminders_db') = Len(reminders_db)
          /\ \A k \in 1..Len(reminders_db) :
               IF /\ reminders_db[k].user_id = UserOrder[sw.k]
                  /\ KeyOf(reminders_db[k]) = KeyOf(Current)
               THEN reminders_db'[k].sent
                      /\ KeyOf(reminders_db'[k]) = KeyOf(Current)
               ELSE reminders_db'[k] = reminders_db[k]]_vars

\* C33 (as claimed): when on_ready runs again and the cache already holds
\* every order of the collection under its day-key, load_orders_from_db
\* adds nothing: the cache, and with it every report total, stays as it was
C33_ReloadIsIdempotent ==
  [][(nready >= 1 /\ nready' = nready + 1
        /\ \A k \in 1..Len(orders_db) :
             Count(orders_cache, orders_db[k].jump_url, orders_db[k].yymmdd) >= 1)
       => orders_cache' = orders_cache]_vars

\* the product of an item string "product × qty" as parse_order_content_smart
\* wrote it: the text before the last × sign
WrittenProduct(item) ==
  LET last == CHOOSE i \in 1..Len(item) :
                item[i] = "×" /\ \A j \in (i + 1)..Len(item) : item[j] # "×"
  IN Strip(SubSeq(item, 1, last - 1))

\* C34 (as claimed): the keys of consolidate_items over the items that
\* parse_order_content_smart produced are exactly the products of those
\* items, so no product loses a part of its name and no two products share
\* a key, whatever letters the names hold
C34_ProductIdentityKept ==
  pin.fn = "parse_order_content_smart" =>
    DOMAIN consolidate_items(pres)
      = {WrittenProduct(pres[i]) : i \in 1..Len(pres)}

\* C35 (as claimed): a text A/B/YYYY that parses gives a date in the year
\* YYYY that was written, never the current year, also when the numbers
\* fail the day/month range test of the D/M/YYYY reading
C35_WrittenYearKept ==
  (Parsed("dmy") /\ pres.ok) =>
    /\ pres.y = pin.arg.in.c
    /\ Val(SubSeq(pres.yymmdd, 1, 2)) = pin.arg.in.c % 100

(***************************************************************************)
(* on_message with the messages the bot posted itself.  The gateway hands  *)
(* every message of the channels to on_message, the bot's own replies      *)
(* included; the reply "Found [marker] but pickup date not recognized"      *)
(* carries the order marker in its text.                                   *)
(***************************************************************************)
Ignored_processed == [pc |-> "r_nr", msg |-> 0, ret |-> "own", now |-> 0]

\* a coroutine of on_message that returned at `if message.author == bot.user`
Ignored == [pc |-> "done", msg |-> 0, ret |-> "own", now |-> 0]

\* on_message with a message of the bot: some process_order_message has
\* returned, so the bot has posted a reply
OwnMessage(h) ==
  /\ hs[h].pc = "idle"
  /\ \A g \in Handlers : g < h => hs[g].pc # "idle"
  /\ \E g \in Handlers : hs[g].pc = "done"
  /\ hs' = [hs EXCEPT ![h] = Ignored]
  /\ UNCHANGED <<clock, cfg, nready, lock, orders_cache, orders_db, svc_cache,
                 reminders, reminders_db, sw, snap, fired>>
  /\ UNCHANGED cmd_vars

\* the messages as on_message receives them, at one instant
NextEcho ==
  \/ \E h \in Handlers, mid \in MsgIds : Recv(h, mid)
  \/ \E h \in Handlers : OwnMessage(h)
  \/ \E h \in Handlers : Lock1(h)
  \/ \E h \in Handlers : NotRecReplied(h)
  \/ \E h \in Handlers : DupReplied(h)
  \/ \E h \in Handlers : Lock2(h)
  \/ \E h \in Handlers : AdvReplied(h)
  \/ \E h \in Handlers, o \in {"unresolved", "sent", "raised"} : Immediate(h, o)
  \/ \E h \in Handlers : Lock3(h)

SpecEcho == Init /\ [][NextEcho]_vars

\* C36: a message the bot posted never enters process_order_message: its
\* on_message returns at once and changes no store and not the lock; and a
\* step starts at most one coroutine, so one inbound message starts at most
\* one ingestion
C36_OwnMessagesIgnored ==
  /\ [](\A h \in Handlers : hs[h].ret = "own" => hs[h].pc = "done")
  /\ [][/\ Cardinality({h \in Handlers :
                          hs[h].pc = "idle" /\ hs'[h].pc # "idle"}) <= 1
        /\ (\E h \in Handlers : hs[h].ret # "own" /\ hs'[h].ret = "own")
             => UNCHANGED <<lock, orders_cache, orders_db, svc_cache,
                            reminders, reminders_db>>]_vars

\* a message of the bot arrived after an order was accepted and a coroutine
\* returned, and its on_message returned at the author test
C36_Witness ==
  /\ \E h \in Handlers : hs[h] = Ignored
  /\ \E h \in Handlers : hs[h] = DoneHandler
  /\ orders_cache # EmptyDict

(***************************************************************************)
(* CakeOrderView (cake_select_view.py).  pres holds the view: its owner,   *)
(* the three selections ("None" for None), the cart, the options of the    *)
(* product select in memory (options) and as the message shows them        *)
(* (shown), and whether an update_message is still to run (edit).  pin is  *)
(* the last interaction: the callback and the user who clicked.  The       *)
(* product names are written in pinyin.                                    *)
(***************************************************************************)
CAKE_SIZES == {"Mini", "3\"", "6\"", "8\""}

CAKE_TYPES == {"Madeleine", "Financier"}

CAKE_PRODUCTS ==
  [t \in CAKE_TYPES |->
     IF t = "Madeleine"
     THEN {"BoheZhuguliMadelian", "ShuangchongZhuguliMadelian"}
     ELSE {"JingdianNiuyouFeinanxue", "KaixinguoFeinanxue"}]

\* the users who click, and the longest cart
ViewUsers == {1, 2}
MaxCart == 1

\* the label of the one option the product select is declared with
Placeholder == "Select type first"

\* the value an option submits: its label, but for the placeholder
OptionValue(label) ==
  IF label = Placeholder THEN "__placeholder__" ELSE label

\* the values the product select can submit
ProductValues ==
  {OptionValue(Placeholder)} \cup UNION {CAKE_PRODUCTS[t] : t \in CAKE_TYPES}

\* CakeOrderView(user_id)
CakeOrderView(user_id) ==
  [user_id |-> user_id, selected_size |-> "None", selected_type |-> "None",
   selected_product |-> "None", cart |-> << >>, options |-> {Placeholder},
   shown |-> {Placeholder}, edit |-> FALSE]

\* a view was made
HasView ==
  pin.fn \in {"cake_order", "select_size", "select_type", "select_product",
              "add_to_cart"}

\* a callback of the view ran for `user` up to its first await and left the
\* view as `view`
Interaction(fn, user, view) ==
  /\ pin' = [fn |-> fn, arg |-> user]
  /\ pres' = view
  /\ UNCHANGED call_frame

\* /cake_order: the view is made and sent
cake_order(user) ==
  /\ pin.fn = NoCall.fn
  /\ Interaction("cake_order", user, CakeOrderView(user))

select_size(user, value) ==
  /\ HasView
  /\ Interaction("select_size", user,
       IF user # pres.user_id THEN pres
       ELSE [pres EXCEPT !.selected_size = value, !.selected_type = "None",
                         !.selected_product = "None", !.edit = TRUE])

select_type(user, value) ==
  /\ HasView
  /\ Interaction("select_type", user,
       IF user # pres.user_id THEN pres
       ELSE IF pres.selected_size = "None" THEN pres
       ELSE [pres EXCEPT !.selected_type = value,
                         !.selected_product = "None", !.edit = TRUE])

\* select.values[0] is the value of an option of the message
select_product(user, value) ==
  /\ HasView
  /\ \E label \in pres.shown : OptionValue(label) = value
  /\ Interaction("select_product", user,
       IF user # pres.user_id THEN pres
       ELSE IF pres.selected_type = "None" THEN pres
       ELSE LET products == CAKE_PRODUCTS[pres.selected_type]
            IN IF products = {} THEN pres
               ELSE IF ~(products \subseteq pres.options)
               THEN [pres EXCEPT !.options = products, !.edit = TRUE]
               ELSE [pres EXCEPT !.selected_product = value, !.edit = TRUE])

add_to_cart(user) ==
  /\ HasView
  /\ Len(pres.cart) < MaxCart
  /\ Interaction("add_to_cart", user,
       IF user # pres.user_id THEN pres
       ELSE IF "None" \in {pres.selected_size, pres.selected_type,
                           pres.selected_product}
       THEN pres
       ELSE [pres EXCEPT !.cart = Append(@, <<pres.selected_size,
                                              pres.selected_type,
                                              pres.selected_product>>),
                         !.edit = TRUE])

\* update_message: interaction.message.edit(embed=embed, view=self) returned
\* ("ok": the message shows the options of the view) or raised (ignored)
update_message(outcome) ==
  /\ HasView
  /\ pres.edit
  /\ pres' = [pres EXCEPT !.edit = FALSE,
                          !.shown = IF outcome = "ok" THEN pres.options ELSE @]
  /\ UNCHANGED <<pin, call_frame>>

NextView ==
  \/ \E user \in ViewUsers : cake_order(user)
  \/ \E user \in ViewUsers, value \in CAKE_SIZES : select_size(user, value)
  \/ \E user \in ViewUsers, value \in CAKE_TYPES : select_type(user, value)
  \/ \E user \in ViewUsers, value \in ProductValues :
       select_product(user, value)
  \/ \E user \in ViewUsers : add_to_cart(user)
  \/ \E outcome \in {"ok", "raised"} : update_message(outcome)

SpecView == InitParse /\ [][NextView]_vars

\* C37 (as claimed): in every state of the view a set product has a set
\* type and a set type a set size, a set product is a product of the set
\* type, every cart entry has its three parts set with the product one of
\* its type, and a click of a user who is not the owner changes neither the
\* selections nor the cart
C37_ViewConsistent ==
  /\ [](HasView =>
          /\ pres.selected_product # "None" => pres.selected_type # "None"
          /\ pres.selected_type # "None" => pres.selected_size # "None"
          /\ pres.selected_product # "None"
               => pres.selected_product \in CAKE_PRODUCTS[pres.selected_type]
          /\ \A k \in 1..Len(pres.cart) :
               /\ pres.cart[k][1] \in CAKE_SIZES
               /\ pres.cart[k][2] \in CAKE_TYPES
               /\ pres.cart[k][3] \in CAKE_PRODUCTS[pres.cart[k][2]])
  /\ [][(HasView /\ pin' # pin /\ pin'.arg # pres.user_id)
          => pres' = pres]_vars

====
